---- MODULE Spec2Model ----
(***************************************************************************)
(* A model of GotoSlnx (src/src/main.cpp): the .sln line parser, the       *)
(* folder path resolver and the .slnx tree writer.                         *)
(*                                                                         *)
(* Text is modelled as a sequence of tokens.  A token is either one of the *)
(* characters the code searches for (" ", "=", ".", "|", "/", "(", ")",    *)
(* the double quote) or a word that contains none of them.  A brace-       *)
(* enclosed identifier such as "{P1}" is one word.  find, rfind, substr,   *)
(* Trim and StartsWith then act on tokens exactly as they act on the       *)
(* characters of the text.                                                 *)
(***************************************************************************)
EXTENDS Integers, Sequences, FiniteSets, TLC

(***************************************************************************)
(* Bounds of the model.                                                    *)
(***************************************************************************)
MaxCfgLines == 2
MaxEdges == 2
MaxDeps == 2
MaxLines == 4

(***************************************************************************)
(* Generic helpers on sequences and maps.                                  *)
(***************************************************************************)
EmptyMap == [x \in {} |-> x]

Put(f, k, v) == [x \in (DOMAIN f) \cup {k} |-> IF x = k THEN v ELSE f[x]]

Has(f, k) == k \in DOMAIN f

Last(s) == s[Len(s)]

Front(s) == SubSeq(s, 1, Len(s) - 1)

Range(s) == {s[i] : i \in 1..Len(s)}

RECURSIVE Flatten(_)
Flatten(ss) == IF ss = <<>> THEN <<>> ELSE Head(ss) \o Flatten(Tail(ss))

(* index of the first / last occurrence of token t in s, 0 for npos *)
Find(s, t) ==
    IF \E i \in 1..Len(s) : s[i] = t
    THEN CHOOSE i \in 1..Len(s) : s[i] = t /\ \A j \in 1..(i - 1) : s[j] # t
    ELSE 0

FindFrom(s, t, start) ==
    IF \E i \in start..Len(s) : s[i] = t
    THEN CHOOSE i \in start..Len(s) : s[i] = t /\ \A j \in start..(i - 1) : s[j] # t
    ELSE 0

RFind(s, t) ==
    IF \E i \in 1..Len(s) : s[i] = t
    THEN CHOOSE i \in 1..Len(s) : s[i] = t /\ \A j \in (i + 1)..Len(s) : s[j] # t
    ELSE 0

(***************************************************************************)
(* Byte order of the tokens that occur in the keys of a std::set or        *)
(* std::map of std::string.  None of these words is a prefix of another;   *)
(* comparing token by token is then comparing character by character.      *)
(***************************************************************************)
TokenOrder ==
    << " ", ".", "/", "0", "ActiveCfg", "App", "Build", "Core", "Debug", "Deploy", "Lib",
       "Release", "Src", "Win32", "x64", "{F1}", "{F2}", "{P1}", "{P2}", "{U}", "|" >>

Rank(t) == CHOOSE i \in 1..Len(TokenOrder) : TokenOrder[i] = t

(* a < b for std::string *)
StrLess(a, b) ==
    \/ /\ Len(a) < Len(b)
       /\ \A i \in 1..Len(a) : a[i] = b[i]
    \/ \E i \in 1..Len(a) :
          /\ i <= Len(b)
          /\ \A j \in 1..(i - 1) : a[j] = b[j]
          /\ a[i] # b[i]
          /\ Rank(a[i]) < Rank(b[i])

(* the elements of a std::set<std::string> (or the keys of a std::map) in iteration order *)
RECURSIVE Ascending(_)
Ascending(S) ==
    IF S = {} THEN <<>>
    ELSE LET m == CHOOSE x \in S : \A y \in S \ {x} : StrLess(x, y)
         IN  <<m>> \o Ascending(S \ {m})

(***************************************************************************)
(* Text utilities (main.cpp 59-93).                                        *)
(***************************************************************************)
IsSpace(t) == t = " "

Trim(input) ==
    LET start == IF \A i \in 1..Len(input) : IsSpace(input[i])
                 THEN Len(input) + 1
                 ELSE CHOOSE i \in 1..Len(input) :
                        ~IsSpace(input[i]) /\ \A j \in 1..(i - 1) : IsSpace(input[j])
        end   == IF start > Len(input)
                 THEN start - 1
                 ELSE CHOOSE i \in start..Len(input) :
                        ~IsSpace(input[i]) /\ \A j \in (i + 1)..Len(input) : IsSpace(input[j])
    IN  SubSeq(input, start, end)

StartsWith(text, prefix) ==
    Len(text) >= Len(prefix) /\ SubSeq(text, 1, Len(prefix)) = prefix

SplitOnce(text, delimiter) ==
    LET pos == Find(text, delimiter)
    IN  IF pos = 0 THEN << text >>
        ELSE << SubSeq(text, 1, pos - 1), SubSeq(text, pos + 1, Len(text)) >>

SplitConfig(config) ==
    LET parts == SplitOnce(config, "|")
    IN  IF Len(parts) = 1 THEN << Trim(parts[1]), <<>> >>
        ELSE << Trim(parts[1]), Trim(parts[2]) >>

(***************************************************************************)
(* Data model (main.cpp 23-57).  std::string is a token sequence, an       *)
(* unordered_map / map is a function on its key set, a std::set is a set.  *)
(***************************************************************************)
kSolutionFolderTypeGuid == << "{FOLDER}" >>

DefaultMapping ==
    [ projectBuildType |-> <<>>, projectPlatform |-> <<>>, hasActive |-> FALSE,
      build |-> FALSE, buildSet |-> FALSE, deploy |-> FALSE, deploySet |-> FALSE ]

EmptySolutionData ==
    [ projects |-> <<>>, guidToPath |-> EmptyMap, guidToName |-> EmptyMap,
      nestedProjects |-> EmptyMap, solutionConfigs |-> {}, buildTypes |-> {},
      platforms |-> {} ]

(***************************************************************************)
(* ParseProjectHeader (main.cpp 95-109): the regular expression            *)
(*   ^Project\("\{([^}]+)\}"\)\s*=\s*"([^"]+)",\s*"([^"]+)",\s*"\{([^}]+)\}"\s*$  *)
(* matched token by token.  The result is <<>> for nullopt, <<entry>> else.*)
(***************************************************************************)
Quote == "\""

(* the words of the form {x} with x non-empty: what \{([^}]+)\} matches *)
IsBraced(t) == t \in {"{CPP}", "{FOLDER}", "{F1}", "{F2}", "{P1}", "{P2}", "{U}"}

At(s, i) == IF i \in 1..Len(s) THEN s[i] ELSE ""

(* SkipSpaces for a pattern without \s* *)
SkipNothing(s, i) == i

(* the first position at or after i that holds no white space: what \s* leaves *)
SkipSpaces(s, i) ==
    IF \E j \in i..Len(s) : ~IsSpace(s[j])
    THEN CHOOSE j \in i..Len(s) : ~IsSpace(s[j]) /\ \A k \in i..(j - 1) : IsSpace(s[k])
    ELSE Len(s) + 1

ParseProjectHeader(line) ==
    LET eq == SkipSpaces(line, 7)
        q1 == SkipSpaces(line, eq + 1)
        q2 == FindFrom(line, Quote, q1 + 1)
        q3 == SkipSpaces(line, q2 + 2)
        q4 == FindFrom(line, Quote, q3 + 1)
        q5 == SkipSpaces(line, q4 + 2)
        matches ==
            /\ StartsWith(line, <<"Project", "(", Quote>>)
            /\ IsBraced(At(line, 4)) /\ At(line, 5) = Quote /\ At(line, 6) = ")"
            /\ At(line, eq) = "="
            /\ At(line, q1) = Quote /\ q2 > q1 + 1
            /\ At(line, q2 + 1) = ","
            /\ At(line, q3) = Quote /\ q4 > q3 + 1
            /\ At(line, q4 + 1) = ","
            /\ At(line, q5) = Quote /\ IsBraced(At(line, q5 + 1)) /\ At(line, q5 + 2) = Quote
            /\ SkipSpaces(line, q5 + 3) = Len(line) + 1
    IN  IF ~matches THEN <<>>
        ELSE << [ typeGuid |-> << line[4] >>,
                  name |-> SubSeq(line, q1 + 1, q2 - 1),
                  path |-> SubSeq(line, q3 + 1, q4 - 1),
                  guid |-> << line[q5 + 1] >>,
                  dependencies |-> <<>>,
                  solutionItems |-> <<>>,
                  configMap |-> EmptyMap,
                  isSolutionFolder |-> (<< line[4] >> = kSolutionFolderTypeGuid) ] >>

(***************************************************************************)
(* ParseSolutionConfiguration (main.cpp 111-129).                          *)
(***************************************************************************)
ParseSolutionConfiguration(line, d) ==
    LET parts == SplitOnce(line, "=")
        left == Trim(parts[1])
        configParts == SplitConfig(left)
    IN  IF left = <<>> THEN d
        ELSE [ d EXCEPT
                 !.solutionConfigs = @ \cup {left},
                 !.buildTypes = IF configParts[1] # <<>> THEN @ \cup {configParts[1]} ELSE @,
                 !.platforms = IF configParts[2] # <<>> THEN @ \cup {configParts[2]} ELSE @ ]

(***************************************************************************)
(* ParseProjectConfiguration (main.cpp 131-195).                           *)
(***************************************************************************)
(* the dissection of the left side, lines 133-160: <<>> when the line is dropped,
   else << guid, solutionConfig, suffix, right >> *)
ConfigLineParts(line) ==
    LET parts == SplitOnce(line, "=")
        left == Trim(parts[1])
        right == Trim(parts[2])
        (* a brace word is one token: find('}') ends at the first token *)
        guid == << left[1] >>
        remainder == SubSeq(left, 2, Len(left))
        rest == SubSeq(remainder, 2, Len(remainder))
        lastDot == RFind(rest, ".")
    IN  IF Len(parts) < 2 THEN <<>>
        ELSE IF left = <<>> \/ ~IsBraced(left[1]) THEN <<>>
        ELSE IF remainder = <<>> \/ remainder[1] # "." THEN <<>>
        ELSE IF lastDot = 0 THEN <<>>
        ELSE << guid, SubSeq(rest, 1, lastDot - 1), SubSeq(rest, lastDot + 1, Len(rest)), right >>

(* std::find_if over data.projects, line 164-165: the first index with that guid, 0 for end() *)
FindProject(projects, guid) ==
    IF \E i \in 1..Len(projects) : projects[i].guid = guid
    THEN CHOOSE i \in 1..Len(projects) :
            projects[i].guid = guid /\ \A j \in 1..(i - 1) : projects[j].guid # guid
    ELSE 0

(* ApplySuffix with an ActiveCfg branch that yields to an earlier activation *)
ApplySuffixFirstWins(mapping, suffix, right) ==
    LET configParts == SplitConfig(right)
        activated == [ mapping EXCEPT !.projectBuildType = configParts[1],
                                      !.projectPlatform = configParts[2],
                                      !.hasActive = TRUE ]
        taken == IF right # <<>> /\ ~mapping.hasActive THEN activated ELSE mapping
    IN  IF suffix = <<"ActiveCfg">> THEN (IF mapping.hasActive THEN mapping ELSE activated)
        ELSE IF StartsWith(suffix, <<"Build">>)
        THEN [ taken EXCEPT !.build = TRUE, !.buildSet = TRUE ]
        ELSE IF StartsWith(suffix, <<"Deploy">>)
        THEN [ taken EXCEPT !.deploy = TRUE, !.deploySet = TRUE ]
        ELSE mapping

(* ApplySuffix without the hasActive test of lines 179 and 188 *)
ApplySuffixAlwaysPopulates(mapping, suffix, right) ==
    LET configParts == SplitConfig(right)
        activated == [ mapping EXCEPT !.projectBuildType = configParts[1],
                                      !.projectPlatform = configParts[2],
                                      !.hasActive = TRUE ]
        taken == IF right # <<>> THEN activated ELSE mapping
    IN  IF suffix = <<"ActiveCfg">> THEN activated
        ELSE IF StartsWith(suffix, <<"Build">>)
        THEN [ taken EXCEPT !.build = TRUE, !.buildSet = TRUE ]
        ELSE IF StartsWith(suffix, <<"Deploy">>)
        THEN [ taken EXCEPT !.deploy = TRUE, !.deploySet = TRUE ]
        ELSE mapping

(* lines 170-194 on one mapping *)
ApplySuffix(mapping, suffix, right) ==
    LET configParts == SplitConfig(right)
        activated == [ mapping EXCEPT !.projectBuildType = configParts[1],
                                      !.projectPlatform = configParts[2],
                                      !.hasActive = TRUE ]
    IN  IF suffix = <<"ActiveCfg">> THEN activated
        ELSE IF StartsWith(suffix, <<"Build">>) THEN
            LET m == [ mapping EXCEPT !.build = TRUE, !.buildSet = TRUE ]
            IN  IF right # <<>> /\ ~mapping.hasActive
                THEN [ activated EXCEPT !.build = TRUE, !.buildSet = TRUE ]
                ELSE m
        ELSE IF StartsWith(suffix, <<"Deploy">>) THEN
            LET m == [ mapping EXCEPT !.deploy = TRUE, !.deploySet = TRUE ]
            IN  IF right # <<>> /\ ~mapping.hasActive
                THEN [ activated EXCEPT !.deploy = TRUE, !.deploySet = TRUE ]
                ELSE m
        ELSE mapping

ParseProjectConfiguration(line, d) ==
    LET p == ConfigLineParts(line)
        guid == p[1]
        solutionConfig == p[2]
        suffix == p[3]
        right == p[4]
        i == FindProject(d.projects, guid)
        d1 == [ d EXCEPT !.solutionConfigs = @ \cup {solutionConfig} ]
        old == IF Has(d.projects[i].configMap, solutionConfig)
               THEN d.projects[i].configMap[solutionConfig]
               ELSE DefaultMapping
    IN  IF p = <<>> THEN d
        ELSE IF i = 0 THEN d1
        ELSE [ d1 EXCEPT !.projects[i].configMap =
                 Put(@, solutionConfig, ApplySuffix(old, suffix, right)) ]

(***************************************************************************)
(* ParseNestedProject (main.cpp 197-209).                                  *)
(***************************************************************************)
ParseNestedProject(line, d) ==
    LET parts == SplitOnce(line, "=")
        child == Trim(parts[1])
        parent == Trim(parts[2])
    IN  IF Len(parts) < 2 THEN d
        ELSE IF child = <<>> \/ parent = <<>> THEN d
        ELSE [ d EXCEPT !.nestedProjects = Put(@, child, parent) ]

(***************************************************************************)
(* NormalizeFolderPath (main.cpp 211-223).                                 *)
(***************************************************************************)
RootPath == << "/" >>

RECURSIVE NormalizeFrom(_, _)
NormalizeFrom(path, segments) ==
    IF segments = <<>> THEN path
    ELSE LET segment == Head(segments)
             added == path \o segment
         IN  IF segment = <<>> THEN NormalizeFrom(path, Tail(segments))
             ELSE NormalizeFrom(IF Last(added) # "/" THEN Append(added, "/") ELSE added,
                                Tail(segments))

(* NormalizeFolderPath without the slash of lines 217-219 *)
NormalizeJoined(segments) == RootPath \o Flatten(segments)

NormalizeFolderPath(segments) == NormalizeFrom(RootPath, segments)

(***************************************************************************)
(* ResolveFolderPath (main.cpp 225-274), one frame at a time.              *)
(***************************************************************************)
(* the loop of lines 252-261: the pieces of trimmed between its slashes *)
RECURSIVE SplitSegments(_)
SplitSegments(trimmed) ==
    IF trimmed = <<>> THEN <<>>
    ELSE LET slash == Find(trimmed, "/")
         IN  IF slash = 0 THEN << trimmed >>
             ELSE << SubSeq(trimmed, 1, slash - 1) >>
                    \o SplitSegments(SubSeq(trimmed, slash + 1, Len(trimmed)))

(* lines 237-241: the segment list a frame starts with *)
OwnSegments(folderGuid, d) ==
    IF Has(d.guidToName, folderGuid) THEN << d.guidToName[folderGuid] >> ELSE <<>>

(* WithParentPath with the parent's segments after the frame's own *)
WithParentPathAppended(segments, parentPath, folderGuid, d) ==
    IF parentPath # RootPath
    THEN segments \o SplitSegments(SubSeq(parentPath, 2, Len(parentPath)))
    ELSE segments

(* lines 245-267: the frame's segments once the parent's path is known *)
WithParentPath(segments, parentPath, folderGuid, d) ==
    LET sub == SubSeq(parentPath, 2, Len(parentPath))
        trimmed == IF sub # <<>> /\ Last(sub) = "/" THEN Front(sub) ELSE sub
    IN  IF parentPath # RootPath
        THEN IF trimmed # <<>> THEN SplitSegments(trimmed) \o segments ELSE segments
        ELSE IF segments = <<>> /\ Has(d.guidToName, folderGuid)
             THEN << d.guidToName[folderGuid] >>
             ELSE segments

(* line 232: visiting[folderGuid], which default-inserts false *)
IsVisiting(v, folderGuid) == Has(v, folderGuid) /\ v[folderGuid]

(***************************************************************************)
(* The output tree (tinyxml2): a node is its tag, its attributes in the    *)
(* order they were set, and its children in insertion order.               *)
(***************************************************************************)
Node(tag, attrs, kids) == [ tag |-> tag, attrs |-> attrs, kids |-> kids ]

Attr(name, value) == << name, value >>

BoolText(b) == IF b THEN << "true" >> ELSE << "false" >>

(* AppendBuildTypesAndPlatforms with the two loops in the other order *)
AppendPlatformsFirst(d) ==
    LET bts == Ascending(d.buildTypes)
        pls == Ascending(d.platforms)
    IN  IF d.buildTypes = {} /\ d.platforms = {} THEN <<>>
        ELSE << Node("Configurations", <<>>,
                     [ i \in 1..Len(pls) |-> Node("Platform", << Attr("Name", pls[i]) >>, <<>>) ]
                  \o [ i \in 1..Len(bts) |-> Node("BuildType", << Attr("Name", bts[i]) >>, <<>>) ]) >>

(* AppendBuildTypesAndPlatforms (main.cpp 419-438): the nodes appended to the root *)
AppendBuildTypesAndPlatforms(d) ==
    LET bts == Ascending(d.buildTypes)
        pls == Ascending(d.platforms)
    IN  IF d.buildTypes = {} /\ d.platforms = {} THEN <<>>
        ELSE << Node("Configurations", <<>>,
                     [ i \in 1..Len(bts) |-> Node("BuildType", << Attr("Name", bts[i]) >>, <<>>) ]
                  \o [ i \in 1..Len(pls) |-> Node("Platform", << Attr("Name", pls[i]) >>, <<>>) ]) >>

(* fs::path(p).stem() (line 446); seps are the directory separators of the platform *)
Stem(path, seps) ==
    LET lastSep == IF \E i \in 1..Len(path) : path[i] \in seps
                   THEN CHOOSE i \in 1..Len(path) :
                          path[i] \in seps /\ \A j \in (i + 1)..Len(path) : path[j] \notin seps
                   ELSE 0
        filename == SubSeq(path, lastSep + 1, Len(path))
        dot == RFind(filename, ".")
    IN  IF dot <= 1 \/ filename = << ".", "." >> THEN filename
        ELSE SubSeq(filename, 1, dot - 1)

(* DependencyNodes without the skip of lines 453-455 *)
DependencyNodesUnfiltered(project, d) ==
    [ i \in 1..Len(project.dependencies) |->
        Node("BuildDependency",
             << Attr("Project", IF Has(d.guidToPath, project.dependencies[i])
                                THEN d.guidToPath[project.dependencies[i]]
                                ELSE <<>>) >>, <<>>) ]

(* lines 451-459 *)
DependencyNodes(project, d) ==
    Flatten([ i \in 1..Len(project.dependencies) |->
                IF Has(d.guidToPath, project.dependencies[i])
                THEN << Node("BuildDependency",
                             << Attr("Project", d.guidToPath[project.dependencies[i]]) >>, <<>>) >>
                ELSE <<>> ])

(* MappingNodes without the skip of lines 462-464 *)
MappingNodesUnguarded(solutionConfig, mapping) ==
       (IF mapping.projectBuildType # <<>>
        THEN << Node("BuildType", << Attr("Solution", solutionConfig),
                                     Attr("Project", mapping.projectBuildType) >>, <<>>) >>
        ELSE <<>>)
    \o (IF mapping.buildSet
        THEN << Node("Build", << Attr("Solution", solutionConfig),
                                 Attr("Project", BoolText(mapping.build)) >>, <<>>) >>
        ELSE <<>>)
    \o (IF mapping.deploySet
        THEN << Node("Deploy", << Attr("Solution", solutionConfig),
                                  Attr("Project", BoolText(mapping.deploy)) >>, <<>>) >>
        ELSE <<>>)

(* lines 462-492, for one entry of configMap *)
MappingNodes(solutionConfig, mapping) ==
    IF ~mapping.hasActive THEN <<>>
    ELSE (IF mapping.projectBuildType # <<>>
          THEN << Node("BuildType", << Attr("Solution", solutionConfig),
                                       Attr("Project", mapping.projectBuildType) >>, <<>>) >>
          ELSE <<>>)
      \o (IF mapping.projectPlatform # <<>>
          THEN << Node("Platform", << Attr("Solution", solutionConfig),
                                      Attr("Project", mapping.projectPlatform) >>, <<>>) >>
          ELSE <<>>)
      \o (IF mapping.buildSet
          THEN << Node("Build", << Attr("Solution", solutionConfig),
                                   Attr("Project", BoolText(mapping.build)) >>, <<>>) >>
          ELSE <<>>)
      \o (IF mapping.deploySet
          THEN << Node("Deploy", << Attr("Solution", solutionConfig),
                                    Attr("Project", BoolText(mapping.deploy)) >>, <<>>) >>
          ELSE <<>>)

(* lines 461-493: configMap is a std::map, iterated in ascending key order *)
ConfigNodes(project) ==
    LET keys == Ascending(DOMAIN project.configMap)
    IN  Flatten([ i \in 1..Len(keys) |-> MappingNodes(keys[i], project.configMap[keys[i]]) ])

(* AppendProjectXml (main.cpp 440-496): the Project node appended to parent *)
AppendProjectXml(project, d, seps) ==
    Node("Project",
         << Attr("Path", project.path), Attr("Id", project.guid) >>
           \o (IF project.name # <<>> /\ project.name # Stem(project.path, seps)
               THEN << Attr("DisplayName", project.name) >>
               ELSE <<>>),
         DependencyNodes(project, d) \o ConfigNodes(project))

(* lines 534-550: the Folder node of one entry of filesByFolder *)
FolderNode(folderPath, files, byFolder, d, seps) ==
    Node("Folder", << Attr("Name", folderPath) >>,
         [ i \in 1..Len(files) |-> Node("File", << Attr("Path", files[i]) >>, <<>>) ]
      \o (IF Has(byFolder, folderPath)
          THEN [ i \in 1..Len(byFolder[folderPath]) |->
                   AppendProjectXml(d.projects[byFolder[folderPath][i]], d, seps) ]
          ELSE <<>>))

(* lines 553-558 *)
RootProjectNodes(byFolder, d, seps) ==
    IF Has(byFolder, RootPath)
    THEN [ i \in 1..Len(byFolder[RootPath]) |->
             AppendProjectXml(d.projects[byFolder[RootPath][i]], d, seps) ]
    ELSE <<>>

(***************************************************************************)
(* State.                                                                  *)
(***************************************************************************)
VARIABLES
    pc,                     \* where main / ParseSln / WriteSlnx stands
    env,                    \* what the run meets outside: arguments and the file system
    status,                 \* the exit status of main, -1 while it runs
    input,                  \* the lines of the .sln file
    lines,                  \* ParseSln: the lines getline has not yet delivered
    data,                   \* SolutionData
    inProject, inProjectDependencies, inSolutionItems, inGlobalSection,
    currentGlobalSection,   \* ParseSln's locals (306-310)
    cfgLog,                 \* history: the configuration lines that reached line 170
    openSection,            \* history: the ProjectSection( header read last and not yet closed
    lineNo,                 \* history: how many lines getline has delivered
    root,                   \* WriteSlnx: the children of the Solution element so far
    folderPathCache, visiting, projectsByFolder, folderEntries, filesByFolder,
    projIdx,                \* WriteSlnx: position of the loop of line 513
    foldersLeft,            \* WriteSlnx: keys of folderEntries the loop of line 528 has not visited
    emitIdx,                \* WriteSlnx: position of the loop of line 533
    stack,                  \* ResolveFolderPath: the frames waiting for their parent's path
    call,                   \* ResolveFolderPath: << guid >> while a call is about to start
    ret,                    \* ResolveFolderPath: << path >> once a call has returned
    topArg,                 \* the argument of the outermost ResolveFolderPath call
    saved,                  \* the output file: <<>> or << children of Solution >>
    saveCalls               \* history: how often doc.SaveFile was called

mainVars == << env, input, status, saved, saveCalls >>
parserVars == << lines, data, inProject, inProjectDependencies, inSolutionItems,
                 inGlobalSection, currentGlobalSection, cfgLog, openSection, lineNo >>
flagVars == << inProject, inProjectDependencies, inSolutionItems, inGlobalSection,
               currentGlobalSection >>
resolverVars == << folderPathCache, visiting, stack, call, ret, topArg >>
writerVars == << root, projectsByFolder, folderEntries, filesByFolder, projIdx,
                 foldersLeft, emitIdx >>
vars == << pc, mainVars, parserVars, resolverVars, writerVars >>

(***************************************************************************)
(* ParseSln (main.cpp 297-417), one line per step.                         *)
(***************************************************************************)
trimmed == Trim(Head(lines))

Reading == pc = "parse" /\ lines # <<>>

Consume == /\ lines' = Tail(lines)
           /\ lineNo' = lineNo + 1
           /\ pc' = pc
           /\ UNCHANGED << mainVars, resolverVars, writerVars >>

IsSectionEnd(t) == StartsWith(t, << "End", "Project", "Section" >>)

IsProjectEnd(t) == StartsWith(t, << "End", "Project" >>)

IsProjectSection(t) == StartsWith(t, << "Project", "Section", "(" >>)

IsHeaderStart(t) == StartsWith(t, << "Project", "(" >>)

IsGlobalSection(t) == StartsWith(t, << "Global", "Section", "(" >>)

IsGlobalSectionEnd(t) == StartsWith(t, << "End", "Global", "Section" >>)

(* lines 318-330 *)
ProjectHeaderLine ==
    /\ Reading /\ trimmed # <<>>
    /\ ~inProject /\ IsHeaderStart(trimmed)
    /\ LET projectOpt == ParseProjectHeader(trimmed)
           entry == projectOpt[1]
       IN  IF projectOpt # <<>>
           THEN /\ data' = [ data EXCEPT
                               !.projects = Append(@, entry),
                               !.guidToName = Put(@, entry.guid, entry.name),
                               !.guidToPath = IF ~entry.isSolutionFolder
                                              THEN Put(@, entry.guid, entry.path) ELSE @ ]
                /\ inProject' = TRUE
           ELSE UNCHANGED << data, inProject >>
    /\ UNCHANGED << inProjectDependencies, inSolutionItems, inGlobalSection,
                    currentGlobalSection, cfgLog, openSection >>
    /\ Consume

(* lines 333-340 *)
ProjectSectionLine ==
    /\ Reading /\ trimmed # <<>>
    /\ inProject /\ IsProjectSection(trimmed)
    /\ IF Find(trimmed, "ProjectDependencies") # 0
       THEN inProjectDependencies' = TRUE /\ UNCHANGED inSolutionItems
       ELSE IF Find(trimmed, "SolutionItems") # 0
            THEN inSolutionItems' = TRUE /\ UNCHANGED inProjectDependencies
            ELSE UNCHANGED << inProjectDependencies, inSolutionItems >>
    /\ openSection' = trimmed
    /\ UNCHANGED << data, inProject, inGlobalSection, currentGlobalSection, cfgLog >>
    /\ Consume

(* lines 341-345 *)
EndProjectSectionLine ==
    /\ Reading /\ trimmed # <<>>
    /\ inProject /\ ~IsProjectSection(trimmed) /\ IsSectionEnd(trimmed)
    /\ inProjectDependencies' = FALSE
    /\ inSolutionItems' = FALSE
    /\ openSection' = <<>>
    /\ UNCHANGED << data, inProject, inGlobalSection, currentGlobalSection, cfgLog >>
    /\ Consume

(* EndProjectLine without lines 348-349: the section flags are left as they are *)
EndProjectLineKeepsSections ==
    /\ Reading /\ trimmed # <<>>
    /\ inProject /\ ~IsProjectSection(trimmed) /\ ~IsSectionEnd(trimmed)
    /\ IsProjectEnd(trimmed)
    /\ inProject' = FALSE
    /\ openSection' = <<>>
    /\ UNCHANGED << data, inProjectDependencies, inSolutionItems, inGlobalSection,
                    currentGlobalSection, cfgLog >>
    /\ Consume

(* lines 346-351 *)
EndProjectLine ==
    /\ Reading /\ trimmed # <<>>
    /\ inProject /\ ~IsProjectSection(trimmed) /\ ~IsSectionEnd(trimmed)
    /\ IsProjectEnd(trimmed)
    /\ inProject' = FALSE
    /\ inProjectDependencies' = FALSE
    /\ inSolutionItems' = FALSE
    /\ openSection' = <<>>
    /\ UNCHANGED << data, inGlobalSection, currentGlobalSection, cfgLog >>
    /\ Consume

InProjectBody(t) ==
    inProject /\ ~IsProjectSection(t) /\ ~IsSectionEnd(t) /\ ~IsProjectEnd(t)

(* lines 353-360 *)
DependencyLine ==
    /\ Reading /\ trimmed # <<>>
    /\ InProjectBody(trimmed) /\ inProjectDependencies
    /\ LET parts == SplitOnce(trimmed, "=")
           dep == Trim(parts[1])
       IN  IF Len(parts) >= 2 /\ dep # <<>>
           THEN data' = [ data EXCEPT
                            !.projects[Len(data.projects)].dependencies = Append(@, dep) ]
           ELSE UNCHANGED data
    /\ UNCHANGED << flagVars, cfgLog, openSection >>
    /\ Consume

(* lines 361-369 *)
SolutionItemLine ==
    /\ Reading /\ trimmed # <<>>
    /\ InProjectBody(trimmed) /\ ~inProjectDependencies /\ inSolutionItems
    /\ LET parts == SplitOnce(trimmed, "=")
           item == Trim(parts[2])
       IN  IF Len(parts) >= 2 /\ item # <<>>
           THEN data' = [ data EXCEPT
                            !.projects[Len(data.projects)].solutionItems = Append(@, item) ]
           ELSE UNCHANGED data
    /\ UNCHANGED << flagVars, cfgLog, openSection >>
    /\ Consume

(* the lines that reach line 373: not blank, not a header attempt, not inside a project *)
OutsideProject(t) == t # <<>> /\ ~inProject /\ ~IsHeaderStart(t)

(* lines 375-381: the text between the first "(" and the first ")" *)
SectionName(t) ==
    LET start == Find(t, "(")
        end == Find(t, ")")
    IN  IF start # 0 /\ end # 0 /\ end > start + 1
        THEN SubSeq(t, start + 1, end - 1)
        ELSE <<>>

(* lines 373-383 *)
GlobalSectionLine ==
    /\ Reading
    /\ OutsideProject(trimmed) /\ IsGlobalSection(trimmed)
    /\ inGlobalSection' = TRUE
    /\ currentGlobalSection' = SectionName(trimmed)
    /\ UNCHANGED << data, inProject, inProjectDependencies, inSolutionItems, cfgLog,
                    openSection >>
    /\ Consume

(* lines 384-388 *)
EndGlobalSectionLine ==
    /\ Reading
    /\ OutsideProject(trimmed) /\ ~IsGlobalSection(trimmed) /\ IsGlobalSectionEnd(trimmed)
    /\ inGlobalSection' = FALSE
    /\ currentGlobalSection' = <<>>
    /\ UNCHANGED << data, inProject, inProjectDependencies, inSolutionItems, cfgLog,
                    openSection >>
    /\ Consume

InSection(t, name) ==
    /\ OutsideProject(t) /\ ~IsGlobalSection(t) /\ ~IsGlobalSectionEnd(t)
    /\ inGlobalSection /\ currentGlobalSection = name

(* lines 391-392 *)
SolutionConfigurationLine ==
    /\ Reading
    /\ InSection(trimmed, << "SolutionConfigurationPlatforms" >>)
    /\ data' = ParseSolutionConfiguration(trimmed, data)
    /\ UNCHANGED << flagVars, cfgLog, openSection >>
    /\ Consume

(* what line 170 was reached with, for the history *)
LogEntry(line, d) ==
    LET p == ConfigLineParts(line)
    IN  IF p = <<>> \/ FindProject(d.projects, p[1]) = 0 THEN <<>>
        ELSE << [ project |-> FindProject(d.projects, p[1]), solutionConfig |-> p[2],
                  suffix |-> p[3], right |-> p[4] ] >>

(* lines 393-394 *)
ProjectConfigurationLine ==
    /\ Reading
    /\ InSection(trimmed, << "ProjectConfigurationPlatforms" >>)
    /\ data' = ParseProjectConfiguration(trimmed, data)
    /\ cfgLog' = cfgLog \o LogEntry(trimmed, data)
    /\ UNCHANGED << flagVars, openSection >>
    /\ Consume

(* lines 395-396 *)
NestedProjectLine ==
    /\ Reading
    /\ InSection(trimmed, << "NestedProjects" >>)
    /\ data' = ParseNestedProject(trimmed, data)
    /\ UNCHANGED << flagVars, cfgLog, openSection >>
    /\ Consume

(* the lines no branch acts on: blank (314-316), inside a project with no section open
   (353-370), and outside a project in no known section (390-398) *)
IgnoredLine ==
    /\ Reading
    /\ \/ trimmed = <<>>
       \/ trimmed # <<>> /\ InProjectBody(trimmed)
            /\ ~inProjectDependencies /\ ~inSolutionItems
       \/ /\ OutsideProject(trimmed) /\ ~IsGlobalSection(trimmed)
          /\ ~IsGlobalSectionEnd(trimmed)
          /\ ~(inGlobalSection /\ currentGlobalSection \in
                 { << "SolutionConfigurationPlatforms" >>,
                   << "ProjectConfigurationPlatforms" >>,
                   << "NestedProjects" >> })
    /\ UNCHANGED << data, flagVars, cfgLog, openSection >>
    /\ Consume

(* PostPassMapping that defaults the deploy flag only *)
PostPassMappingDeployOnly(mapping) ==
    IF ~mapping.hasActive THEN mapping
    ELSE [ mapping EXCEPT
             !.deploy = IF ~mapping.deploySet THEN FALSE ELSE @,
             !.deploySet = TRUE ]

(* lines 401-414 on one mapping *)
PostPassMapping(mapping) ==
    IF ~mapping.hasActive THEN mapping
    ELSE [ mapping EXCEPT
             !.build = IF ~mapping.buildSet THEN FALSE ELSE @,
             !.buildSet = TRUE,
             !.deploy = IF ~mapping.deploySet THEN FALSE ELSE @,
             !.deploySet = TRUE ]

PostPass(d) ==
    [ d EXCEPT !.projects =
        [ i \in 1..Len(d.projects) |->
            [ d.projects[i] EXCEPT !.configMap =
                [ c \in DOMAIN d.projects[i].configMap |->
                    PostPassMapping(d.projects[i].configMap[c]) ] ] ] ]

(* the end of the input: lines 401-416, ParseSln returns to main and main calls WriteSlnx *)
EndOfInput ==
    /\ pc = "parse" /\ lines = <<>>
    /\ data' = PostPass(data)
    /\ pc' = "write"
    /\ UNCHANGED << lines, flagVars, cfgLog, openSection, lineNo, mainVars, resolverVars,
                    writerVars >>

(***************************************************************************)
(* ResolveFolderPath (main.cpp 225-274) as steps: entering a call, and     *)
(* returning into the frame that waits for its parent's path.              *)
(***************************************************************************)
Resolving == call # <<>> \/ stack # <<>>

(* FinishFrame without line 272: the flag is never cleared *)
FinishFrameKeepsFlag(folderGuid, segments) ==
    LET path == NormalizeFolderPath(segments)
    IN  /\ folderPathCache' = Put(folderPathCache, folderGuid, path)
        /\ visiting' = Put(visiting, folderGuid, TRUE)
        /\ ret' = << path >>

(* FinishFrame without line 271: the path is not cached *)
FinishFrameUncached(folderGuid, segments) ==
    LET path == NormalizeFolderPath(segments)
    IN  /\ folderPathCache' = folderPathCache
        /\ visiting' = Put(visiting, folderGuid, FALSE)
        /\ ret' = << path >>

(* lines 270-273 *)
FinishFrame(folderGuid, segments) ==
    LET path == NormalizeFolderPath(segments)
    IN  /\ folderPathCache' = Put(folderPathCache, folderGuid, path)
        /\ visiting' = Put(visiting, folderGuid, FALSE)
        /\ ret' = << path >>

(* lines 228-244, and 270-273 when there is no parent edge *)
ResolveEnter ==
    /\ call # <<>>
    /\ LET folderGuid == call[1]
       IN  IF Has(folderPathCache, folderGuid)
           THEN /\ ret' = << folderPathCache[folderGuid] >>
                /\ call' = <<>>
                /\ UNCHANGED << folderPathCache, visiting, stack >>
           ELSE IF IsVisiting(visiting, folderGuid)
           THEN /\ ret' = << RootPath >>
                /\ call' = <<>>
                /\ UNCHANGED << folderPathCache, visiting, stack >>
           ELSE IF Has(data.nestedProjects, folderGuid)
           THEN /\ visiting' = Put(visiting, folderGuid, TRUE)
                /\ stack' = Append(stack, [ folderGuid |-> folderGuid,
                                            segments |-> OwnSegments(folderGuid, data) ])
                /\ call' = << data.nestedProjects[folderGuid] >>
                /\ UNCHANGED << folderPathCache, ret >>
           ELSE /\ FinishFrame(folderGuid, OwnSegments(folderGuid, data))
                /\ call' = <<>>
                /\ UNCHANGED stack
    /\ UNCHANGED << pc, topArg, mainVars, parserVars, writerVars >>

(* lines 244-273 *)
ResolveReturn ==
    /\ call = <<>> /\ ret # <<>> /\ stack # <<>>
    /\ LET frame == Last(stack)
       IN  FinishFrame(frame.folderGuid,
                       WithParentPath(frame.segments, ret[1], frame.folderGuid, data))
    /\ stack' = Front(stack)
    /\ UNCHANGED << pc, call, topArg, mainVars, parserVars, writerVars >>

(* a caller's ResolveFolderPath(guid, data, folderPathCache, visiting) *)
StartResolve(guid) ==
    /\ topArg' = << guid >>
    /\ call' = << guid >>
    /\ ret' = <<>>
    /\ UNCHANGED << folderPathCache, visiting, stack >>

Returned == call = <<>> /\ stack = <<>> /\ ret # <<>>

TakeResult ==
    /\ topArg' = <<>>
    /\ ret' = <<>>
    /\ UNCHANGED << folderPathCache, visiting, stack, call >>

(***************************************************************************)
(* WriteSlnx (main.cpp 498-563).                                           *)
(***************************************************************************)
Separators == IF env.backslash THEN { "/", "\\" } ELSE { "/" }

(* line 506 *)
WriteConfigurations ==
    /\ pc = "write"
    /\ root' = AppendBuildTypesAndPlatforms(data)
    /\ projIdx' = 1
    /\ pc' = "group"
    /\ UNCHANGED << projectsByFolder, folderEntries, filesByFolder, foldersLeft, emitIdx,
                    mainVars, parserVars, resolverVars >>

(* lines 514-517 *)
GroupFolderEntry ==
    /\ pc = "group" /\ projIdx <= Len(data.projects)
    /\ data.projects[projIdx].isSolutionFolder
    /\ folderEntries' = Put(folderEntries, data.projects[projIdx].guid, projIdx)
    /\ projIdx' = projIdx + 1
    /\ UNCHANGED << pc, root, projectsByFolder, filesByFolder, foldersLeft, emitIdx,
                    mainVars, parserVars, resolverVars >>

(* lines 518-520: the call *)
GroupNestedProject ==
    /\ pc = "group" /\ projIdx <= Len(data.projects)
    /\ ~data.projects[projIdx].isSolutionFolder
    /\ Has(data.nestedProjects, data.projects[projIdx].guid)
    /\ StartResolve(data.nestedProjects[data.projects[projIdx].guid])
    /\ pc' = "groupWait"
    /\ UNCHANGED << writerVars, mainVars, parserVars >>

PushProject(byFolder, folderPath, i) ==
    Put(byFolder, folderPath,
        IF Has(byFolder, folderPath) THEN Append(byFolder[folderPath], i) ELSE << i >>)

(* lines 520-521: the call has returned *)
GroupNestedProjectResolved ==
    /\ pc = "groupWait" /\ Returned
    /\ projectsByFolder' = PushProject(projectsByFolder, ret[1], projIdx)
    /\ projIdx' = projIdx + 1
    /\ pc' = "group"
    /\ TakeResult
    /\ UNCHANGED << root, folderEntries, filesByFolder, foldersLeft, emitIdx,
                    mainVars, parserVars >>

(* lines 522-524 *)
GroupRootProject ==
    /\ pc = "group" /\ projIdx <= Len(data.projects)
    /\ ~data.projects[projIdx].isSolutionFolder
    /\ ~Has(data.nestedProjects, data.projects[projIdx].guid)
    /\ projectsByFolder' = PushProject(projectsByFolder, RootPath, projIdx)
    /\ projIdx' = projIdx + 1
    /\ UNCHANGED << pc, root, folderEntries, filesByFolder, foldersLeft, emitIdx,
                    mainVars, parserVars, resolverVars >>

(* line 525 to 528: the first loop is over, the second starts *)
GroupDone ==
    /\ pc = "group" /\ projIdx > Len(data.projects)
    /\ foldersLeft' = DOMAIN folderEntries
    /\ pc' = "files"
    /\ UNCHANGED << root, projectsByFolder, folderEntries, filesByFolder, projIdx, emitIdx,
                    mainVars, parserVars, resolverVars >>

(* lines 528-529: the next entry of the unordered_map, in whatever order it iterates *)
FilesOfFolder ==
    /\ pc = "files"
    /\ \E guid \in foldersLeft : StartResolve(guid)
    /\ pc' = "filesWait"
    /\ UNCHANGED << writerVars, mainVars, parserVars >>

(* lines 529-530: the call has returned *)
FilesOfFolderResolved ==
    /\ pc = "filesWait" /\ Returned
    /\ filesByFolder' = Put(filesByFolder, ret[1],
                            data.projects[folderEntries[topArg[1]]].solutionItems)
    /\ foldersLeft' = foldersLeft \ { topArg[1] }
    /\ pc' = "files"
    /\ TakeResult
    /\ UNCHANGED << root, projectsByFolder, folderEntries, projIdx, emitIdx,
                    mainVars, parserVars >>

(* line 531 to 533: the second loop is over, the third starts *)
FilesDone ==
    /\ pc = "files" /\ foldersLeft = {}
    /\ emitIdx' = 1
    /\ pc' = "emit"
    /\ UNCHANGED << root, projectsByFolder, folderEntries, filesByFolder, projIdx, foldersLeft,
                    mainVars, parserVars, resolverVars >>

(* filesByFolder is a std::map: its keys in iteration order *)
FolderPaths == Ascending(DOMAIN filesByFolder)

(* lines 533-551, one iteration *)
EmitFolder ==
    /\ pc = "emit" /\ emitIdx <= Len(FolderPaths)
    /\ LET folderPath == FolderPaths[emitIdx]
       IN  root' = Append(root, FolderNode(folderPath, filesByFolder[folderPath],
                                           projectsByFolder, data, Separators))
    /\ emitIdx' = emitIdx + 1
    /\ UNCHANGED << pc, projectsByFolder, folderEntries, filesByFolder, projIdx, foldersLeft,
                    mainVars, parserVars, resolverVars >>

(* lines 553-558 *)
EmitRootProjects ==
    /\ pc = "emit" /\ emitIdx > Len(FolderPaths)
    /\ root' = root \o RootProjectNodes(projectsByFolder, data, Separators)
    /\ pc' = "save"
    /\ UNCHANGED << projectsByFolder, folderEntries, filesByFolder, projIdx, foldersLeft,
                    emitIdx, mainVars, parserVars, resolverVars >>

(* lines 560-562, and main's 601-605 *)
SaveFile ==
    /\ pc = "save"
    /\ saveCalls' = saveCalls + 1
    /\ IF env.writable
       THEN saved' = << root >> /\ status' = 0
       ELSE saved' = saved /\ status' = 1
    /\ pc' = "exit"
    /\ UNCHANGED << env, input, parserVars, resolverVars, writerVars >>

(***************************************************************************)
(* main (main.cpp 567-607).                                                *)
(***************************************************************************)
(* lines 575-596: the arguments and the checks before ParseSln *)
Main ==
    /\ pc = "main"
    /\ IF env.help
       THEN pc' = "exit" /\ status' = 0
       ELSE IF ~env.inputIsSln \/ (env.outputExists /\ ~env.force)
            THEN pc' = "exit" /\ status' = 1
            ELSE pc' = "open" /\ status' = status
    /\ UNCHANGED << env, input, saved, saveCalls, parserVars, resolverVars, writerVars >>

(* OpenInput without the test of line 300 *)
OpenInputUnchecked ==
    /\ pc = "open"
    /\ pc' = "parse" /\ status' = status
    /\ UNCHANGED << env, input, saved, saveCalls, parserVars, resolverVars, writerVars >>

(* lines 299-310 *)
OpenInput ==
    /\ pc = "open"
    /\ IF env.openable
       THEN pc' = "parse" /\ status' = status
       ELSE pc' = "exit" /\ status' = 1
    /\ UNCHANGED << env, input, saved, saveCalls, parserVars, resolverVars, writerVars >>

(***************************************************************************)
(* WriteSlnx as a function of the model and of the order in which the loop *)
(* of line 528 meets the entries of folderEntries.                         *)
(***************************************************************************)
(* ResolveFolderPath (main.cpp 225-274): the path, and the cache and the flags it leaves *)
RECURSIVE ResolveFolderPath(_, _, _, _)
ResolveFolderPath(folderGuid, d, cache, flags) ==
    IF Has(cache, folderGuid)
    THEN [ path |-> cache[folderGuid], cache |-> cache, visiting |-> flags ]
    ELSE IF IsVisiting(flags, folderGuid)
    THEN [ path |-> RootPath, cache |-> cache, visiting |-> flags ]
    ELSE LET marked == Put(flags, folderGuid, TRUE)
             nested == Has(d.nestedProjects, folderGuid)
             parent == IF nested
                       THEN ResolveFolderPath(d.nestedProjects[folderGuid], d, cache, marked)
                       ELSE [ path |-> RootPath, cache |-> cache, visiting |-> marked ]
             segments == IF nested
                         THEN WithParentPath(OwnSegments(folderGuid, d), parent.path,
                                             folderGuid, d)
                         ELSE OwnSegments(folderGuid, d)
             path == NormalizeFolderPath(segments)
         IN  [ path |-> path,
               cache |-> Put(parent.cache, folderGuid, path),
               visiting |-> Put(parent.visiting, folderGuid, FALSE) ]

(* lines 513-525 from entry i on; acc holds folderPathCache, visiting, projectsByFolder
   and folderEntries *)
RECURSIVE GroupProjects(_, _, _)
GroupProjects(i, d, acc) ==
    IF i > Len(d.projects) THEN acc
    ELSE IF d.projects[i].isSolutionFolder
    THEN GroupProjects(i + 1, d,
                       [ acc EXCEPT !.folderEntries = Put(@, d.projects[i].guid, i) ])
    ELSE IF Has(d.nestedProjects, d.projects[i].guid)
    THEN LET r == ResolveFolderPath(d.nestedProjects[d.projects[i].guid], d,
                                    acc.cache, acc.visiting)
         IN  GroupProjects(i + 1, d,
                           [ acc EXCEPT !.cache = r.cache, !.visiting = r.visiting,
                                        !.projectsByFolder = PushProject(@, r.path, i) ])
    ELSE GroupProjects(i + 1, d,
                       [ acc EXCEPT !.projectsByFolder = PushProject(@, RootPath, i) ])

(* lines 527-531 for the entries of folderEntries in that order *)
RECURSIVE CollectFiles(_, _, _)
CollectFiles(order, d, acc) ==
    IF order = <<>> THEN acc
    ELSE LET r == ResolveFolderPath(Head(order), d, acc.cache, acc.visiting)
         IN  CollectFiles(Tail(order), d,
                          [ acc EXCEPT
                              !.cache = r.cache, !.visiting = r.visiting,
                              !.filesByFolder =
                                  Put(@, r.path,
                                      d.projects[acc.folderEntries[Head(order)]].solutionItems) ])

(* WriteSlnx (main.cpp 498-558): the children of the Solution element *)
WriteSlnx(d, order, seps) ==
    LET grouped == GroupProjects(1, d, [ cache |-> EmptyMap, visiting |-> EmptyMap,
                                         projectsByFolder |-> EmptyMap,
                                         folderEntries |-> EmptyMap,
                                         filesByFolder |-> EmptyMap ])
        done == CollectFiles(order, d, grouped)
        paths == Ascending(DOMAIN done.filesByFolder)
    IN  AppendBuildTypesAndPlatforms(d)
          \o [ k \in 1..Len(paths) |->
                 FolderNode(paths[k], done.filesByFolder[paths[k]], done.projectsByFolder,
                            d, seps) ]
          \o RootProjectNodes(done.projectsByFolder, d, seps)

(***************************************************************************)
(* Inputs: .sln files as line sequences.                                   *)
(***************************************************************************)
F1 == << "{F1}" >>
F2 == << "{F2}" >>
P1 == << "{P1}" >>
P2 == << "{P2}" >>
U == << "{U}" >>
CppType == << "{CPP}" >>

DebugX64 == << "Debug", "|", "x64" >>
ReleaseWin32 == << "Release", "|", "Win32" >>

HeaderText(type, name, path, guid) ==
    << "Project", "(", Quote >> \o type \o << Quote, ")", " ", "=", " ", Quote >> \o name
      \o << Quote, ",", " ", Quote >> \o path \o << Quote, ",", " ", Quote >> \o guid
      \o << Quote >>

SectionText(kind, name, when) ==
    << " ", kind, "Section", "(", name, ")", " ", "=", " ", when >>

PairText(left, right) ==
    << " ", " " >> \o left \o << " ", "=" >> \o (IF right = <<>> THEN <<>> ELSE << " " >> \o right)

ConfigText(guid, solutionConfig, suffix, right) ==
    PairText(guid \o << "." >> \o solutionConfig \o << "." >> \o suffix, right)

(* a solution folder with its solution items *)
FolderBlock(name, guid, items) ==
    << HeaderText(kSolutionFolderTypeGuid, name, name, guid) >>
      \o (IF items = <<>> THEN <<>>
          ELSE << SectionText("Project", "SolutionItems", "preProject") >>
                 \o [ i \in 1..Len(items) |-> PairText(items[i], items[i]) ]
                 \o << << " ", "End", "Project", "Section" >> >>)
      \o << << "End", "Project" >> >>

(* a project with its dependencies *)
ProjectBlock(name, path, guid, deps) ==
    << HeaderText(CppType, name, path, guid) >>
      \o (IF deps = <<>> THEN <<>>
          ELSE << SectionText("Project", "ProjectDependencies", "postProject") >>
                 \o [ i \in 1..Len(deps) |-> PairText(deps[i], deps[i]) ]
                 \o << << " ", "End", "Project", "Section" >> >>)
      \o << << "End", "Project" >> >>

GlobalBlock(name, when, body) ==
    << SectionText("Global", name, when) >> \o body \o << << " ", "End", "Global", "Section" >> >>

(* the whole file: two folders, two projects, the three global sections *)
SlnFile(name2, deps, solutionConfigs, configLines, edges) ==
    << << "Microsoft" >>, <<>> >>
      \o FolderBlock(<< "Src" >>, F1, << << "readme" >>, << "notes" >> >>)
      \o FolderBlock(name2, F2, <<>>)
      \o ProjectBlock(<< "App" >>, << "App", "\\", "App", ".", "vcxproj" >>, P1, deps)
      \o ProjectBlock(<< "Core" >>, << "Core", ".", "vcxproj" >>, P2, <<>>)
      \o << << "Global" >> >>
      \o GlobalBlock("SolutionConfigurationPlatforms", "preSolution",
                     [ i \in 1..Len(solutionConfigs) |->
                         PairText(solutionConfigs[i], solutionConfigs[i]) ])
      \o GlobalBlock("ProjectConfigurationPlatforms", "postSolution", configLines)
      \o GlobalBlock("NestedProjects", "preSolution",
                     [ i \in 1..Len(edges) |-> PairText(edges[i][1], edges[i][2]) ])
      \o << << "End", "Global" >> >>

(* sequences over S of length at most n *)
RECURSIVE SeqsUpTo(_, _)
SeqsUpTo(S, n) ==
    IF n = 0 THEN { <<>> }
    ELSE LET shorter == SeqsUpTo(S, n - 1)
         IN  shorter \cup { Append(q, x) : q \in shorter, x \in S }

(* the configuration lines the inputs draw from *)
ConfigLines ==
    { ConfigText(P1, DebugX64, << "ActiveCfg" >>, DebugX64),
      ConfigText(P1, DebugX64, << "ActiveCfg" >>, ReleaseWin32),
      ConfigText(P1, DebugX64, << "Build", ".", "0" >>, DebugX64),
      ConfigText(P1, DebugX64, << "Build" >>, ReleaseWin32),
      ConfigText(P1, DebugX64, << "Build" >>, <<>>),
      ConfigText(P1, DebugX64, << "Deploy" >>, DebugX64),
      ConfigText(P1, ReleaseWin32, << "ActiveCfg" >>, << "Release" >>),
      ConfigText(U, DebugX64, << "ActiveCfg" >>, DebugX64) }

(* nesting edges: the children and the parents the inputs draw from *)
Children == { F1, F2, P1, P2, U }
Parents == { F1, F2, P2, U }

(* the nesting maps with at most n edges, each as the list of its lines *)
RECURSIVE SetToSeq(_)
SetToSeq(S) ==
    IF S = {} THEN <<>>
    ELSE LET x == CHOOSE y \in S : \A z \in S \ {y} : StrLess(y[1], z[1])
         IN  << x >> \o SetToSeq(S \ {x})

EdgeLists(children, parents, n) ==
    { SetToSeq({ << c, f[c] >> : c \in C }) :
        C \in { D \in SUBSET children : Cardinality(D) <= n },
        f \in [ children -> parents ] }

DependencyLists == SeqsUpTo({ P2, F1, U }, MaxDeps)

StandardEdges == << << P1, F1 >> >>
StandardConfig ==
    << ConfigText(P1, DebugX64, << "ActiveCfg" >>, DebugX64),
       ConfigText(P1, DebugX64, << "Build", ".", "0" >>, DebugX64) >>
StandardSolutionConfigs == << ReleaseWin32, DebugX64 >>
Names2 == { << "Lib" >>, << "Lib", "/" >>, << "Src" >> }

Inputs ==
    { SlnFile(<< "Lib" >>, << P2 >>, StandardSolutionConfigs, c, StandardEdges) :
        c \in SeqsUpTo(ConfigLines, MaxCfgLines) }
    \cup { SlnFile(n, << P2 >>, StandardSolutionConfigs, StandardConfig, e) :
             n \in Names2, e \in EdgeLists(Children, Parents, MaxEdges) }
    \cup { SlnFile(<< "Lib" >>, d, s, StandardConfig, StandardEdges) :
             d \in DependencyLists, s \in { <<>>, << DebugX64 >>, StandardSolutionConfigs } }

StandardInput ==
    SlnFile(<< "Lib" >>, << P2 >>, StandardSolutionConfigs, StandardConfig, StandardEdges)

StandardEnv ==
    [ help |-> FALSE, inputIsSln |-> TRUE, outputExists |-> FALSE, force |-> FALSE,
      openable |-> TRUE, writable |-> TRUE, backslash |-> TRUE ]

Envs ==
    [ help : BOOLEAN, inputIsSln : BOOLEAN, outputExists : BOOLEAN, force : BOOLEAN,
      openable : BOOLEAN, writable : BOOLEAN, backslash : BOOLEAN ]

(***************************************************************************)
(* The run of the program: main, ParseSln, WriteSlnx.                      *)
(***************************************************************************)
InitLocals ==
    /\ data = EmptySolutionData
    /\ inProject = FALSE /\ inProjectDependencies = FALSE /\ inSolutionItems = FALSE
    /\ inGlobalSection = FALSE /\ currentGlobalSection = <<>>
    /\ cfgLog = <<>> /\ openSection = <<>> /\ lineNo = 0

InitWriter ==
    /\ root = <<>>
    /\ folderPathCache = EmptyMap /\ visiting = EmptyMap
    /\ projectsByFolder = EmptyMap /\ folderEntries = EmptyMap /\ filesByFolder = EmptyMap
    /\ projIdx = 1 /\ foldersLeft = {} /\ emitIdx = 1
    /\ stack = <<>> /\ call = <<>> /\ ret = <<>> /\ topArg = <<>>

Init ==
    /\ pc = "main"
    /\ input \in Inputs
    /\ lines = input
    /\ env \in Envs
    /\ env = StandardEnv \/ input = StandardInput
    /\ status = -1 /\ saved = <<>> /\ saveCalls = 0
    /\ InitLocals
    /\ InitWriter

ParseLine ==
    \/ ProjectHeaderLine \/ ProjectSectionLine \/ EndProjectSectionLine \/ EndProjectLine
    \/ DependencyLine \/ SolutionItemLine
    \/ GlobalSectionLine \/ EndGlobalSectionLine
    \/ SolutionConfigurationLine \/ ProjectConfigurationLine \/ NestedProjectLine
    \/ IgnoredLine

Next ==
    \/ Main \/ OpenInput
    \/ ParseLine \/ EndOfInput
    \/ WriteConfigurations
    \/ GroupFolderEntry \/ GroupNestedProject \/ GroupNestedProjectResolved \/ GroupRootProject
    \/ GroupDone
    \/ FilesOfFolder \/ FilesOfFolderResolved \/ FilesDone
    \/ ResolveEnter \/ ResolveReturn
    \/ EmitFolder \/ EmitRootProjects \/ SaveFile

Spec == Init /\ [][Next]_vars

(***************************************************************************)
(* The resolver alone: any nesting map, any order of top-level calls on    *)
(* one cache.                                                              *)
(***************************************************************************)
(* lines 321-326 applied to the entries of a list of header lines *)
RECURSIVE WithHeaders(_, _)
WithHeaders(d, headers) ==
    IF headers = <<>> THEN d
    ELSE LET entry == ParseProjectHeader(Head(headers))[1]
         IN  WithHeaders([ d EXCEPT
                             !.projects = Append(@, entry),
                             !.guidToName = Put(@, entry.guid, entry.name),
                             !.guidToPath = IF ~entry.isSolutionFolder
                                            THEN Put(@, entry.guid, entry.path) ELSE @ ],
                         Tail(headers))

RECURSIVE WithEdges(_, _)
WithEdges(d, edges) ==
    IF edges = <<>> THEN d
    ELSE WithEdges(ParseNestedProject(PairText(Head(edges)[1], Head(edges)[2]), d), Tail(edges))

ResolverIds == { F1, F2, P2, U }

ResolverData ==
    { WithEdges(WithHeaders(EmptySolutionData,
                            << HeaderText(kSolutionFolderTypeGuid, << "Src" >>, << "Src" >>, F1),
                               HeaderText(kSolutionFolderTypeGuid, n, n, F2),
                               HeaderText(CppType, << "Core" >>, << "Core", ".", "vcxproj" >>, P2) >>),
                e) :
        n \in Names2, e \in EdgeLists(ResolverIds, ResolverIds, MaxEdges) }

InitResolve ==
    /\ pc = "resolve"
    /\ data \in ResolverData
    /\ input = <<>> /\ lines = <<>>
    /\ env = StandardEnv
    /\ status = -1 /\ saved = <<>> /\ saveCalls = 0
    /\ inProject = FALSE /\ inProjectDependencies = FALSE /\ inSolutionItems = FALSE
    /\ inGlobalSection = FALSE /\ currentGlobalSection = <<>>
    /\ cfgLog = <<>> /\ openSection = <<>> /\ lineNo = 0
    /\ InitWriter

(* some caller resolves some identifier, as lines 520 and 529 do *)
ResolveTop ==
    /\ pc = "resolve" /\ ~Resolving
    /\ \E guid \in ResolverIds : StartResolve(guid)
    /\ UNCHANGED << pc, mainVars, parserVars, writerVars >>

NextResolve == ResolveTop \/ ResolveEnter \/ ResolveReturn

SpecResolve == InitResolve /\ [][NextResolve]_vars

(* the program runs on: a call that can start starts, a frame that can return returns *)
FairResolve == SpecResolve /\ WF_vars(ResolveEnter) /\ WF_vars(ResolveReturn)

(***************************************************************************)
(* The parser alone, on any line sequence: the file is read line by line   *)
(* and may hold any of ParserLines next, or end.                           *)
(***************************************************************************)
TwoBars == << "Debug", "|", "x64", "|", "ARM" >>

AppPath == << "App", "\\", "App", ".", "vcxproj" >>

ParserLines ==
    { HeaderText(kSolutionFolderTypeGuid, << "Src" >>, << "Src" >>, F1),
      HeaderText(CppType, << "App" >>, AppPath, P1),
      << " " >> \o HeaderText(CppType, << "Core" >>, << "Core", ".", "vcxproj" >>, F1) \o << " " >>,
      << "Project", "(", Quote >> \o CppType \o << Quote, ")", " ", "=", " ", Quote, "App", Quote >>,
      SectionText("Project", "ProjectDependencies", "postProject"),
      SectionText("Project", "SolutionItems", "preProject"),
      SectionText("Project", "WebsiteProperties", "preProject"),
      << " ", "End", "Project", "Section" >>,
      << "End", "Project" >>,
      PairText(P2, F1),
      PairText(<< "readme" >>, << "notes" >>),
      PairText(<<>>, << "notes" >>),
      << "Microsoft" >>,
      << " ", " " >>,
      SectionText("Global", "SolutionConfigurationPlatforms", "preSolution"),
      SectionText("Global", "ProjectConfigurationPlatforms", "postSolution"),
      SectionText("Global", "NestedProjects", "preSolution"),
      << " ", "End", "Global", "Section" >>,
      PairText(TwoBars, TwoBars),
      PairText(<< "Debug" >>, << "Debug" >>),
      ConfigText(P1, DebugX64, << "ActiveCfg" >>, TwoBars) }

(* line 312: getline delivers the next line of the file *)
ReadLine ==
    /\ pc = "parse" /\ lines = <<>> /\ lineNo < MaxLines
    /\ \E line \in ParserLines : lines' = << line >>
    /\ UNCHANGED << pc, data, flagVars, cfgLog, openSection, lineNo, mainVars, resolverVars,
                    writerVars >>

InitParse ==
    /\ pc = "parse"
    /\ input = <<>> /\ lines = <<>>
    /\ env = StandardEnv
    /\ status = -1 /\ saved = <<>> /\ saveCalls = 0
    /\ InitLocals
    /\ InitWriter

NextParse == ReadLine \/ ParseLine \/ EndOfInput

SpecParse == InitParse /\ [][NextParse]_vars

(***************************************************************************)
(* Reading the output tree.                                                *)
(***************************************************************************)
Finished == pc = "exit" /\ saved # <<>>

Output == saved[1]

HasAttr(node, name) == \E i \in 1..Len(node.attrs) : node.attrs[i][1] = name

AttrValue(node, name) ==
    node.attrs[CHOOSE i \in 1..Len(node.attrs) : node.attrs[i][1] = name][2]

(* the positions in kids of the nodes with that tag *)
Positions(kids, tag) == { i \in 1..Len(kids) : kids[i].tag = tag }

(* the subsequence of kids with that tag *)
RECURSIVE Tagged(_, _)
Tagged(kids, tag) ==
    IF kids = <<>> THEN <<>>
    ELSE (IF Head(kids).tag = tag THEN << Head(kids) >> ELSE <<>>) \o Tagged(Tail(kids), tag)

(* where the Project nodes with that Id stand: << 0, k >> for the k-th child of Solution,
   << f, k >> for the k-th child of the Folder that is the f-th child of Solution *)
ProjectPlaces(tree, guid) ==
    { << 0, k >> : k \in { j \in Positions(tree, "Project") : AttrValue(tree[j], "Id") = guid } }
    \cup UNION { { << f, k >> : k \in { j \in Positions(tree[f].kids, "Project") :
                                          AttrValue(tree[f].kids[j], "Id") = guid } } :
                  f \in Positions(tree, "Folder") }

NodeAt(tree, place) ==
    IF place[1] = 0 THEN tree[place[2]] ELSE tree[place[1]].kids[place[2]]

(* the non-folder entries of the model *)
RealProjects == { i \in 1..Len(data.projects) : ~data.projects[i].isSolutionFolder }

(* a child with that tag and those Solution and Project attributes *)
HasPairing(node, tag, solution, project) ==
    \E k \in Positions(node.kids, tag) :
        /\ AttrValue(node.kids[k], "Solution") = solution
        /\ AttrValue(node.kids[k], "Project") = project

(***************************************************************************)
(* C1.  End to end: a project G whose ProjectConfigurationPlatforms        *)
(* section holds both {G}.C.ActiveCfg = B|P and {G}.C.Build.0 = B|P gets,  *)
(* in its Project node, BuildType(Solution=C, Project=B),                  *)
(* Platform(Solution=C, Project=P) and Build(Solution=C, Project="true").  *)
(* The inputs that hold both lines for {P1}, Debug|x64 and no other        *)
(* ActiveCfg line for them are those of C1_HasBothLines.                   *)
(***************************************************************************)
C1_ActiveLine == ConfigText(P1, DebugX64, << "ActiveCfg" >>, DebugX64)

C1_BuildLine == ConfigText(P1, DebugX64, << "Build", ".", "0" >>, DebugX64)

C1_HasBothLines ==
    /\ C1_ActiveLine \in Range(input) /\ C1_BuildLine \in Range(input)
    /\ ConfigText(P1, DebugX64, << "ActiveCfg" >>, ReleaseWin32) \notin Range(input)
    /\ ConfigText(P1, DebugX64, << "Build" >>, ReleaseWin32) \notin Range(input)

C1_EndToEnd ==
    (Finished /\ C1_HasBothLines) =>
        \A place \in ProjectPlaces(Output, P1) :
            /\ HasPairing(NodeAt(Output, place), "BuildType", DebugX64, << "Debug" >>)
            /\ HasPairing(NodeAt(Output, place), "Platform", DebugX64, << "x64" >>)
            /\ HasPairing(NodeAt(Output, place), "Build", DebugX64, << "true" >>)

(***************************************************************************)
(* C2.  Every non-folder project is emitted as exactly one Project node:   *)
(* inside the Folder node named by the resolved path of its nesting parent *)
(* when it has a nesting edge and that path is not "/", else as a direct   *)
(* child of the Solution root.                                             *)
(***************************************************************************)
(* the path WriteSlnx resolved for the nesting parent of project i *)
ParentPath(i) ==
    IF Has(data.nestedProjects, data.projects[i].guid)
    THEN folderPathCache[data.nestedProjects[data.projects[i].guid]]
    ELSE RootPath

C2_PlacedRight(i, place) ==
    IF ParentPath(i) = RootPath THEN place[1] = 0
    ELSE place[1] # 0 /\ AttrValue(Output[place[1]], "Name") = ParentPath(i)

C2_EveryProjectOnce ==
    Finished =>
        \A i \in RealProjects :
            /\ Cardinality(ProjectPlaces(Output, data.projects[i].guid)) = 1
            /\ \A place \in ProjectPlaces(Output, data.projects[i].guid) :
                  C2_PlacedRight(i, place)

(***************************************************************************)
(* The nesting chain of an identifier, read off nestedProjects.            *)
(***************************************************************************)
(* guid, its parent, its grandparent, ..., for at most n edges *)
RECURSIVE Walk(_, _)
Walk(guid, n) ==
    IF n = 0 \/ ~Has(data.nestedProjects, guid) THEN << guid >>
    ELSE << guid >> \o Walk(data.nestedProjects[guid], n - 1)

EdgeCount == Cardinality(DOMAIN data.nestedProjects)

InCycle(guid) == guid \in Range(Tail(Walk(guid, EdgeCount)))

Acyclic == \A guid \in DOMAIN data.nestedProjects : ~InCycle(guid)

NoneVisiting == \A guid \in DOMAIN visiting : ~visiting[guid]

(***************************************************************************)
(* C3.  In a nesting map with a cycle (a self-edge A->A, a two-cycle       *)
(* A->B->A), ResolveFolderPath returns "/" for every member of the cycle,  *)
(* whichever member is resolved first.                                     *)
(***************************************************************************)
C3_CycleMembersAtRoot ==
    (Returned /\ InCycle(topArg[1])) => ret[1] = RootPath

(***************************************************************************)
(* C4.  ResolveFolderPath terminates for every identifier and every finite *)
(* nesting map, cyclic or not: the recursion is never deeper than the      *)
(* number of edges, every call returns, and when a top-level call has      *)
(* returned no identifier is marked as visiting.                           *)
(***************************************************************************)
C4_Terminates ==
    /\ [](Len(stack) <= EdgeCount)
    /\ [](Returned => NoneVisiting)
    /\ (Resolving ~> Returned)

C4_Witness ==
    /\ Returned /\ InCycle(topArg[1])
    /\ Cardinality(DOMAIN visiting) >= 2
    /\ Cardinality(DOMAIN folderPathCache) >= 2

(***************************************************************************)
(* C10.  For an acyclic nesting map, ResolveFolderPath(id) is "/" followed *)
(* by the registered names of id's ancestor chain, topmost ancestor first, *)
(* id itself last, each followed by "/" (an identifier with no registered  *)
(* name adds nothing), whatever was resolved earlier with the same cache.  *)
(* As amended: provided no registered name on the chain contains "/".      *)
(***************************************************************************)
(* the names of the chain, each followed by "/", topmost ancestor first *)
RECURSIVE ChainNames(_)
ChainNames(chain) ==
    IF chain = <<>> THEN <<>>
    ELSE ChainNames(Tail(chain))
           \o (IF Has(data.guidToName, Head(chain))
               THEN data.guidToName[Head(chain)] \o << "/" >>
               ELSE <<>>)

ChainPath(guid) == << "/" >> \o ChainNames(Walk(guid, EdgeCount))

SlashFreeChain(guid) ==
    \A g \in Range(Walk(guid, EdgeCount)) :
        Has(data.guidToName, g) => "/" \notin Range(data.guidToName[g])

C10_ChainPathAnyName ==
    (Returned /\ Acyclic) => ret[1] = ChainPath(topArg[1])

C10_ChainPath ==
    (Returned /\ Acyclic /\ SlashFreeChain(topArg[1])) => ret[1] = ChainPath(topArg[1])

C10_Witness ==
    /\ Returned /\ Acyclic /\ SlashFreeChain(topArg[1])
    /\ Walk(topArg[1], EdgeCount) = << F1, U, P2 >>
    /\ ret[1] = << "/", "Core", "/", "Src", "/" >>
    /\ Has(folderPathCache, F2)

(***************************************************************************)
(* C5.  After the post-pass of ParseSln, every configMap entry with        *)
(* hasActive has buildSet and deploySet; its build is true iff a line      *)
(* whose suffix (the text after the last "." of the left side) starts with *)
(* Build was processed for that project and configuration, its deploy is   *)
(* true iff one whose suffix starts with Deploy was.                       *)
(***************************************************************************)
AfterPostPass == pc \notin { "main", "open", "parse" }

Processed(i, solutionConfig, word) ==
    \E k \in 1..Len(cfgLog) :
        /\ cfgLog[k].project = i
        /\ cfgLog[k].solutionConfig = solutionConfig
        /\ StartsWith(cfgLog[k].suffix, << word >>)

C5_PostPass ==
    AfterPostPass =>
        \A i \in 1..Len(data.projects) :
            \A c \in DOMAIN data.projects[i].configMap :
                LET mapping == data.projects[i].configMap[c]
                IN  mapping.hasActive =>
                        /\ mapping.buildSet /\ mapping.deploySet
                        /\ mapping.build <=> Processed(i, c, "Build")
                        /\ mapping.deploy <=> Processed(i, c, "Deploy")

C5_Witness ==
    /\ pc = "write"
    /\ Has(data.projects[3].configMap, DebugX64)
    /\ data.projects[3].configMap[DebugX64].hasActive
    /\ ~data.projects[3].configMap[DebugX64].build
    /\ data.projects[3].configMap[DebugX64].deploy
    /\ Processed(3, DebugX64, "Deploy") /\ ~Processed(3, DebugX64, "Build")

(***************************************************************************)
(* C6.  The output file is written only after the parse has completed and  *)
(* the tree is assembled.  If the input cannot be opened the run ends with *)
(* a non-zero status and SaveFile is never called.                         *)
(***************************************************************************)
C6_WriteAfterParse ==
    /\ saveCalls > 0 =>
          /\ env.openable /\ lines = <<>> /\ pc = "exit"
          /\ emitIdx > Len(FolderPaths) /\ foldersLeft = {}
          /\ projIdx > Len(data.projects)
    /\ saved # <<>> => saveCalls = 1 /\ status = 0 /\ saved[1] = root
    /\ ~env.openable => saveCalls = 0 /\ saved = <<>>
    /\ (pc = "exit" /\ ~env.openable /\ ~env.help) => status = 1

C6_Witness ==
    /\ pc = "exit" /\ status = 1 /\ saveCalls = 0
    /\ ~env.openable /\ ~env.help /\ env.inputIsSln /\ ~env.outputExists

(***************************************************************************)
(* C7.  The BuildDependency children of a project's node are exactly the   *)
(* entries of its dependencies list that are keys of guidToPath, in list   *)
(* order, each with the mapped path; the others produce no node.           *)
(***************************************************************************)
RECURSIVE ResolvableDeps(_)
ResolvableDeps(deps) ==
    IF deps = <<>> THEN <<>>
    ELSE (IF Head(deps) \in DOMAIN data.guidToPath
          THEN << data.guidToPath[Head(deps)] >> ELSE <<>>)
           \o ResolvableDeps(Tail(deps))

DependencyPaths(node) ==
    LET nodes == Tagged(node.kids, "BuildDependency")
    IN  [ k \in 1..Len(nodes) |-> AttrValue(nodes[k], "Project") ]

C7_Dependencies ==
    Finished =>
        \A i \in RealProjects :
            \A place \in ProjectPlaces(Output, data.projects[i].guid) :
                /\ Len(DependencyPaths(NodeAt(Output, place)))
                     = Len(ResolvableDeps(data.projects[i].dependencies))
                /\ \A k \in 1..Len(DependencyPaths(NodeAt(Output, place))) :
                      DependencyPaths(NodeAt(Output, place))[k]
                        = ResolvableDeps(data.projects[i].dependencies)[k]

C7_Witness ==
    /\ Finished
    /\ data.projects[3].dependencies = << F1, P2 >>
    /\ \E place \in ProjectPlaces(Output, P1) :
          Len(Tagged(NodeAt(Output, place).kids, "BuildDependency")) = 1

(***************************************************************************)
(* C8.  In a project's node, for every configuration of its configMap: if  *)
(* hasActive is false no BuildType, Platform, Build or Deploy node names   *)
(* that configuration; if hasActive is true exactly one Build node and     *)
(* exactly one Deploy node name it, with Project="true" or "false" as the  *)
(* stored flag says.                                                       *)
(***************************************************************************)
(* the positions of the children with that tag that name the configuration *)
NodesFor(node, tag, solutionConfig) ==
    { k \in Positions(node.kids, tag) : AttrValue(node.kids[k], "Solution") = solutionConfig }

C8_MappingEmitted(node, solutionConfig, mapping) ==
    IF ~mapping.hasActive
    THEN \A tag \in { "BuildType", "Platform", "Build", "Deploy" } :
            NodesFor(node, tag, solutionConfig) = {}
    ELSE /\ Cardinality(NodesFor(node, "Build", solutionConfig)) = 1
         /\ Cardinality(NodesFor(node, "Deploy", solutionConfig)) = 1
         /\ \A k \in NodesFor(node, "Build", solutionConfig) :
               AttrValue(node.kids[k], "Project") = BoolText(mapping.build)
         /\ \A k \in NodesFor(node, "Deploy", solutionConfig) :
               AttrValue(node.kids[k], "Project") = BoolText(mapping.deploy)

C8_FlagsEmitted ==
    Finished =>
        \A i \in RealProjects :
            \A place \in ProjectPlaces(Output, data.projects[i].guid) :
                \A c \in DOMAIN data.projects[i].configMap :
                    C8_MappingEmitted(NodeAt(Output, place), c, data.projects[i].configMap[c])

C8_Witness ==
    /\ Finished
    /\ ProjectPlaces(Output, P1) # {}
    /\ DOMAIN data.projects[3].configMap = { DebugX64, ReleaseWin32 }
    /\ ~data.projects[3].configMap[DebugX64].hasActive
    /\ data.projects[3].configMap[DebugX64].buildSet
    /\ data.projects[3].configMap[ReleaseWin32].hasActive

(***************************************************************************)
(* C9.  The children of the Solution root come in this order: the          *)
(* Configurations block (present iff buildTypes or platforms is non-empty; *)
(* BuildTypes ascending, then Platforms ascending), then the Folder nodes  *)
(* in ascending order of their path, then the root-level Project nodes in  *)
(* parse order.  Inside a Folder node the File nodes, in solution-item     *)
(* order, come before the Project nodes, in parse order.                   *)
(***************************************************************************)
(* the values of one attribute along a node sequence *)
Values(nodes, name) == [ k \in 1..Len(nodes) |-> AttrValue(nodes[k], name) ]

StrictlyAscending(strings) ==
    \A j, k \in 1..Len(strings) : j < k => StrLess(strings[j], strings[k])

(* the Project nodes stand in the order in which their entries were parsed *)
InParseOrder(nodes) ==
    \A j, k \in 1..Len(nodes) :
        j < k => FindProject(data.projects, AttrValue(nodes[j], "Id"))
                   < FindProject(data.projects, AttrValue(nodes[k], "Id"))

(* tags come block by block: first all of tags[1], then all of tags[2], ... *)
InBlocks(kids, tags) ==
    /\ \A k \in 1..Len(kids) : \E t \in 1..Len(tags) : kids[k].tag = tags[t]
    /\ \A j, k \in 1..Len(kids) : \A t, u \in 1..Len(tags) :
          (j < k /\ kids[j].tag = tags[t] /\ kids[k].tag = tags[u]) => t <= u

C9_Configurations(tree) ==
    /\ Cardinality(Positions(tree, "Configurations"))
         = IF data.buildTypes = {} /\ data.platforms = {} THEN 0 ELSE 1
    /\ \A p \in Positions(tree, "Configurations") :
          /\ InBlocks(tree[p].kids, << "BuildType", "Platform" >>)
          /\ StrictlyAscending(Values(Tagged(tree[p].kids, "BuildType"), "Name"))
          /\ StrictlyAscending(Values(Tagged(tree[p].kids, "Platform"), "Name"))
          /\ Range(Values(Tagged(tree[p].kids, "BuildType"), "Name")) = data.buildTypes
          /\ Range(Values(Tagged(tree[p].kids, "Platform"), "Name")) = data.platforms

C9_Folder(folder) ==
    /\ InBlocks(folder.kids, << "File", "Project" >>)
    /\ InParseOrder(Tagged(folder.kids, "Project"))
    /\ \E i \in 1..Len(data.projects) :
          /\ data.projects[i].isSolutionFolder
          /\ folderPathCache[data.projects[i].guid] = AttrValue(folder, "Name")
          /\ Len(Tagged(folder.kids, "File")) = Len(data.projects[i].solutionItems)
          /\ \A k \in 1..Len(data.projects[i].solutionItems) :
                AttrValue(Tagged(folder.kids, "File")[k], "Path")
                  = data.projects[i].solutionItems[k]

C9_Order ==
    Finished =>
        /\ InBlocks(Output, << "Configurations", "Folder", "Project" >>)
        /\ C9_Configurations(Output)
        /\ StrictlyAscending(Values(Tagged(Output, "Folder"), "Name"))
        /\ InParseOrder(Tagged(Output, "Project"))
        /\ \A f \in Positions(Output, "Folder") : C9_Folder(Output[f])

C9_Witness ==
    /\ Finished
    /\ Len(Tagged(Output, "Configurations")) = 1
    /\ Len(Tagged(Output[1].kids, "BuildType")) = 2
    /\ Len(Tagged(Output[1].kids, "Platform")) = 2
    /\ Len(Tagged(Output, "Folder")) = 2
    /\ Len(Tagged(Output, "Project")) = 1
    /\ \E f \in Positions(Output, "Folder") :
          /\ Len(Tagged(Output[f].kids, "File")) = 2
          /\ Len(Tagged(Output[f].kids, "Project")) = 1

(***************************************************************************)
(* C11.  Every value ResolveFolderPath returns and every value in its      *)
(* cache begins with "/" and ends with "/", and is exactly "/" when        *)
(* neither the identifier nor any identifier reachable from it along the   *)
(* nesting edges has a registered name; for every nesting map, cyclic ones *)
(* included.                                                               *)
(***************************************************************************)
Slashed(path) == path # <<>> /\ Head(path) = "/" /\ Last(path) = "/"

Nameless(guid) ==
    \A g \in Range(Walk(guid, EdgeCount)) : ~Has(data.guidToName, g)

C11_Slashes ==
    /\ \A g \in DOMAIN folderPathCache :
          /\ Slashed(folderPathCache[g])
          /\ Nameless(g) => folderPathCache[g] = RootPath
    /\ ret # <<>> => Slashed(ret[1])
    /\ (Returned /\ Nameless(topArg[1])) => ret[1] = RootPath

C11_Witness ==
    /\ Returned /\ topArg[1] = U /\ InCycle(U) /\ ret[1] = RootPath
    /\ Has(folderPathCache, U)
    /\ Has(folderPathCache, F1) /\ Len(folderPathCache[F1]) = 5

(***************************************************************************)
(* C12.  Resolution is memoized: when a top-level ResolveFolderPath(id)    *)
(* has returned, its result is the cache entry of id; a cache entry, once  *)
(* written, is never removed or given another value; and a call for a      *)
(* cached identifier returns the entry at once, opening no frame and       *)
(* touching neither the cache nor the visiting flags.                      *)
(***************************************************************************)
CacheKept ==
    \A g \in DOMAIN folderPathCache :
        Has(folderPathCache', g) /\ folderPathCache'[g] = folderPathCache[g]

CachedCallReturnsEntry ==
    (call # <<>> /\ Has(folderPathCache, call[1])) =>
        /\ ret' = << folderPathCache[call[1]] >>
        /\ call' = <<>> /\ stack' = stack
        /\ folderPathCache' = folderPathCache /\ visiting' = visiting

C12_Memoized ==
    /\ [](Returned => (Has(folderPathCache, topArg[1])
                         /\ folderPathCache[topArg[1]] = ret[1]))
    /\ [][CacheKept]_vars
    /\ [][CachedCallReturnsEntry]_vars

C12_Witness ==
    /\ call = << F1 >> /\ topArg = << F1 >> /\ stack = <<>>
    /\ Has(folderPathCache, F1)
    /\ folderPathCache[F1] = << "/", "Core", "/", "Src", "/" >>

(***************************************************************************)
(* C13.  A line that matches the header grammar                            *)
(*   Project("{T}") = "N", "P", "{G}"                                      *)
(* appends exactly one ProjectEntry with typeGuid {T}, name N, path P,     *)
(* guid {G} and isSolutionFolder true iff {T} is the folder type           *)
(* identifier, registers {G} -> N in guidToName, and {G} -> P in           *)
(* guidToPath iff the entry is no folder.  A Project(-prefixed line that   *)
(* does not match creates no entry, registers nothing and lets the parse   *)
(* go on.  As amended: the first part for lines read while inProject is    *)
(* false.                                                                  *)
(***************************************************************************)
(* the headers the lines are written from: << T, N, P, G >> *)
HeaderCases ==
    { << kSolutionFolderTypeGuid, << "Src" >>, << "Src" >>, F1 >>,
      << CppType, << "App" >>, AppPath, P1 >>,
      << CppType, << "Core" >>, << "Core", ".", "vcxproj" >>, F1 >> }

(* the line at hand is that header, white space around it or not *)
ReadsHeader(h) ==
    /\ Reading
    /\ \/ Head(lines) = HeaderText(h[1], h[2], h[3], h[4])
       \/ Head(lines) = << " " >> \o HeaderText(h[1], h[2], h[3], h[4]) \o << " " >>

EntryCreated(h) ==
    /\ Len(data'.projects) = Len(data.projects) + 1
    /\ SubSeq(data'.projects, 1, Len(data.projects)) = data.projects
    /\ Last(data'.projects) =
          [ typeGuid |-> h[1], name |-> h[2], path |-> h[3], guid |-> h[4],
            dependencies |-> <<>>, solutionItems |-> <<>>, configMap |-> EmptyMap,
            isSolutionFolder |-> (h[1] = << "{FOLDER}" >>) ]
    /\ Has(data'.guidToName, h[4]) /\ data'.guidToName[h[4]] = h[2]
    /\ IF h[1] = << "{FOLDER}" >>
       THEN data'.guidToPath = data.guidToPath
       ELSE Has(data'.guidToPath, h[4]) /\ data'.guidToPath[h[4]] = h[3]

(* the line at hand starts with Project( and is none of the headers *)
ReadsMalformedHeader ==
    /\ Reading
    /\ Len(Head(lines)) >= 2 /\ SubSeq(Head(lines), 1, 2) = << "Project", "(" >>
    /\ \A h \in HeaderCases : ~ReadsHeader(h)

NothingCreated ==
    /\ Len(data'.projects) = Len(data.projects)
    /\ \A j \in 1..Len(data.projects) :
          /\ data'.projects[j].guid = data.projects[j].guid
          /\ data'.projects[j].name = data.projects[j].name
          /\ data'.projects[j].path = data.projects[j].path
          /\ data'.projects[j].typeGuid = data.projects[j].typeGuid
    /\ data'.guidToName = data.guidToName /\ data'.guidToPath = data.guidToPath
    /\ pc' = "parse" /\ status' = status

C13_HeaderInAnyState ==
    [][ /\ \A h \in HeaderCases : ReadsHeader(h) => EntryCreated(h)
        /\ ReadsMalformedHeader => NothingCreated ]_vars

C13_Header ==
    [][ /\ \A h \in HeaderCases : (ReadsHeader(h) /\ ~inProject) => EntryCreated(h)
        /\ ReadsMalformedHeader => NothingCreated ]_vars

C13_Witness ==
    /\ Len(data.projects) = 2 /\ inProject /\ inGlobalSection
    /\ data.projects[1].isSolutionFolder /\ data.projects[1].guid = F1
    /\ ~data.projects[2].isSolutionFolder /\ data.projects[2].guid = F1
    /\ data.guidToName[F1] = << "Core" >>
    /\ Has(data.guidToPath, F1)

(***************************************************************************)
(* The configuration lines processed so far for one project and one        *)
(* configuration, read off the history.                                    *)
(***************************************************************************)
LinesFor(i, solutionConfig) ==
    { k \in 1..Len(cfgLog) :
        cfgLog[k].project = i /\ cfgLog[k].solutionConfig = solutionConfig }

IsActiveCfg(e) == e.suffix = << "ActiveCfg" >>

IsBuild(e) == e.suffix # <<>> /\ Head(e.suffix) = "Build"

IsDeploy(e) == e.suffix # <<>> /\ Head(e.suffix) = "Deploy"

Max(S) == CHOOSE x \in S : \A y \in S : y <= x

Min(S) == CHOOSE x \in S : \A y \in S : x <= y

(* the build type and the platform a right-hand value with at most one "|" names *)
ValueOf(right) ==
    IF "|" \notin Range(right) THEN << right, <<>> >>
    ELSE LET bar == CHOOSE k \in 1..Len(right) : right[k] = "|"
         IN  << SubSeq(right, 1, bar - 1), SubSeq(right, bar + 1, Len(right)) >>

Pair(mapping) == << mapping.projectBuildType, mapping.projectPlatform >>

(***************************************************************************)
(* C14.  For the lines processed for one project and one configuration:    *)
(* if one of them is an ActiveCfg line, projectBuildType and               *)
(* projectPlatform are those of the last ActiveCfg line; if none is, they  *)
(* are those of the first line whose suffix (the text after the last ".")  *)
(* starts with Build or Deploy and whose right-hand value is not empty.    *)
(***************************************************************************)
C14_Precedence ==
    \A i \in 1..Len(data.projects) :
        \A c \in DOMAIN data.projects[i].configMap :
            LET actives == { k \in LinesFor(i, c) : IsActiveCfg(cfgLog[k]) }
                sources == { k \in LinesFor(i, c) :
                               /\ IsBuild(cfgLog[k]) \/ IsDeploy(cfgLog[k])
                               /\ cfgLog[k].right # <<>> }
                mapping == data.projects[i].configMap[c]
            IN  IF actives # {}
                THEN Pair(mapping) = ValueOf(cfgLog[Max(actives)].right)
                ELSE sources # {} => Pair(mapping) = ValueOf(cfgLog[Min(sources)].right)

C14_Witness ==
    /\ Len(cfgLog) = 2
    /\ cfgLog[1] = [ project |-> 3, solutionConfig |-> DebugX64,
                     suffix |-> << "Build" >>, right |-> ReleaseWin32 ]
    /\ cfgLog[2] = [ project |-> 3, solutionConfig |-> DebugX64,
                     suffix |-> << "ActiveCfg" >>, right |-> DebugX64 ]
    /\ Pair(data.projects[3].configMap[DebugX64]) = << << "Debug" >>, << "x64" >> >>

(***************************************************************************)
(* C15.  A line whose suffix starts with Build or Deploy changes           *)
(* projectBuildType, projectPlatform or hasActive only when its right-hand *)
(* value is not empty and no ActiveCfg line was processed before it for    *)
(* the same project and configuration; when the value is not empty and     *)
(* hasActive is still false it sets them from the value; and it always     *)
(* sets its own flag pair to true and leaves the other pair as it was.     *)
(***************************************************************************)
(* the step processes a configuration line: its entry, the mapping before and after *)
C15_Step(e, old, new) ==
    (IsBuild(e) \/ IsDeploy(e)) =>
        /\ (Pair(new) # Pair(old) \/ new.hasActive # old.hasActive) =>
              /\ e.right # <<>>
              /\ \A k \in LinesFor(e.project, e.solutionConfig) : ~IsActiveCfg(cfgLog[k])
        /\ (e.right # <<>> /\ ~old.hasActive) =>
              new.hasActive /\ Pair(new) = ValueOf(e.right)
        /\ IsBuild(e) => /\ new.build /\ new.buildSet
                          /\ new.deploy = old.deploy /\ new.deploySet = old.deploySet
        /\ IsDeploy(e) => /\ new.deploy /\ new.deploySet
                           /\ new.build = old.build /\ new.buildSet = old.buildSet

C15_BuildDeployLine ==
    [][ cfgLog' # cfgLog =>
          LET e == Last(cfgLog')
              before == data.projects[e.project].configMap
          IN  C15_Step(e,
                       IF Has(before, e.solutionConfig) THEN before[e.solutionConfig]
                                                        ELSE DefaultMapping,
                       data'.projects[e.project].configMap[e.solutionConfig]) ]_vars

C15_Witness ==
    /\ Len(cfgLog) = 2
    /\ IsActiveCfg(cfgLog[1]) /\ cfgLog[1].right = DebugX64
    /\ IsBuild(cfgLog[2]) /\ cfgLog[2].right = ReleaseWin32
    /\ cfgLog[1].solutionConfig = cfgLog[2].solutionConfig
    /\ Pair(data.projects[3].configMap[DebugX64]) = << << "Debug" >>, << "x64" >> >>
    /\ data.projects[3].configMap[DebugX64].build
    /\ ~data.projects[3].configMap[DebugX64].deploySet

(***************************************************************************)
(* C16.  A buildtype|platform string is split on its last "|": the         *)
(* platform is the trimmed text after the last "|", the build type the     *)
(* trimmed text before it, and a string without "|" has an empty platform; *)
(* for the left side of a SolutionConfigurationPlatforms line and for the  *)
(* right-hand value of an ActiveCfg, Build or Deploy line.                 *)
(***************************************************************************)
SplitOnLastBar(config) ==
    LET bars == { k \in 1..Len(config) : config[k] = "|" }
    IN  IF bars = {} THEN << Trim(config), <<>> >>
        ELSE << Trim(SubSeq(config, 1, Max(bars) - 1)),
                Trim(SubSeq(config, Max(bars) + 1, Len(config))) >>

(* the line at hand is handed to ParseSolutionConfiguration *)
ReadsSolutionConfiguration ==
    Reading /\ InSection(trimmed, << "SolutionConfigurationPlatforms" >>)

(* the text before the first "=" of the line at hand, trimmed; the whole line if it has none *)
LeftSide ==
    LET eqs == { k \in 1..Len(trimmed) : trimmed[k] = "=" }
    IN  IF eqs = {} THEN trimmed ELSE Trim(SubSeq(trimmed, 1, Min(eqs) - 1))

(* the text after the first "=" of the line at hand, trimmed *)
RightSide ==
    LET eqs == { k \in 1..Len(trimmed) : trimmed[k] = "=" }
    IN  IF eqs = {} THEN <<>> ELSE Trim(SubSeq(trimmed, Min(eqs) + 1, Len(trimmed)))

C16_SplitOnLastBar ==
    [][ /\ (ReadsSolutionConfiguration /\ LeftSide # <<>>) =>
              /\ SplitOnLastBar(LeftSide)[1] # <<>> =>
                    SplitOnLastBar(LeftSide)[1] \in data'.buildTypes
              /\ SplitOnLastBar(LeftSide)[2] # <<>> =>
                    SplitOnLastBar(LeftSide)[2] \in data'.platforms
              /\ data'.buildTypes \subseteq data.buildTypes \cup { SplitOnLastBar(LeftSide)[1] }
              /\ data'.platforms \subseteq data.platforms \cup { SplitOnLastBar(LeftSide)[2] }
        /\ (cfgLog' # cfgLog /\ IsActiveCfg(Last(cfgLog'))) =>
              Pair(data'.projects[Last(cfgLog').project].configMap[Last(cfgLog').solutionConfig])
                = SplitOnLastBar(Last(cfgLog').right) ]_vars

(***************************************************************************)
(* C17.  At every point of the parse inProject and inGlobalSection are not *)
(* both true, inProjectDependencies and inSolutionItems are not both true, *)
(* and a project entry is created only by a line read while inProject is   *)
(* false.                                                                  *)
(***************************************************************************)
C17_ExclusiveStates ==
    /\ [](~(inProject /\ inGlobalSection))
    /\ [](~(inProjectDependencies /\ inSolutionItems))
    /\ [][Len(data'.projects) > Len(data.projects) => ~inProject]_vars

(***************************************************************************)
(* C18.  After the parse every key of nestedProjects is a key of           *)
(* guidToName.                                                             *)
(***************************************************************************)
C18_NestedKeysNamed ==
    AfterPostPass => DOMAIN data.nestedProjects \subseteq DOMAIN data.guidToName

(***************************************************************************)
(* C19.  A line of a project block that is no section marker, read while   *)
(* inProjectDependencies (resp. inSolutionItems) is true, appends the      *)
(* trimmed text before (resp. after) its first "=", if the line has one    *)
(* and the text is not empty, to the dependencies (resp. solutionItems) of *)
(* the last entry, the one whose header opened the block, and changes      *)
(* nothing else of the model; and no step changes typeGuid, name, path,    *)
(* guid, dependencies or solutionItems of an entry whose block is closed.  *)
(***************************************************************************)
ReadsBodyLine == Reading /\ trimmed # <<>> /\ InProjectBody(trimmed)

HasEquals == "=" \in Range(trimmed)

AppendsDependency ==
    data' = [ data EXCEPT !.projects[Len(data.projects)].dependencies =
                IF HasEquals /\ LeftSide # <<>> THEN Append(@, LeftSide) ELSE @ ]

AppendsSolutionItem ==
    data' = [ data EXCEPT !.projects[Len(data.projects)].solutionItems =
                IF HasEquals /\ RightSide # <<>> THEN Append(@, RightSide) ELSE @ ]

(* the entries whose block is closed keep what the header and the block gave them *)
ClosedEntriesKept ==
    /\ Len(data'.projects) >= Len(data.projects)
    /\ \A j \in 1..Len(data.projects) :
          (j < Len(data.projects) \/ ~inProject) =>
              /\ data'.projects[j].typeGuid = data.projects[j].typeGuid
              /\ data'.projects[j].name = data.projects[j].name
              /\ data'.projects[j].path = data.projects[j].path
              /\ data'.projects[j].guid = data.projects[j].guid
              /\ data'.projects[j].dependencies = data.projects[j].dependencies
              /\ data'.projects[j].solutionItems = data.projects[j].solutionItems

C19_SectionLines ==
    [][ /\ (ReadsBodyLine /\ inProjectDependencies) => AppendsDependency
        /\ (ReadsBodyLine /\ inSolutionItems) => AppendsSolutionItem
        /\ ClosedEntriesKept ]_vars

(***************************************************************************)
(* C20.  While the ProjectSection( header read last in the open block      *)
(* names neither ProjectDependencies nor SolutionItems and no              *)
(* EndProjectSection has followed it, no line changes the dependencies or  *)
(* the solutionItems of any entry.                                         *)
(***************************************************************************)
InOtherSection ==
    /\ openSection # <<>>
    /\ "ProjectDependencies" \notin Range(openSection)
    /\ "SolutionItems" \notin Range(openSection)

C20_OtherSectionIgnored ==
    [][ (Reading /\ InOtherSection) =>
          /\ Len(data'.projects) = Len(data.projects)
          /\ \A j \in 1..Len(data.projects) :
                /\ data'.projects[j].dependencies = data.projects[j].dependencies
                /\ data'.projects[j].solutionItems = data.projects[j].solutionItems ]_vars

(***************************************************************************)
(* C21.  Every solution item of every solution-folder entry appears as     *)
(* exactly one File node, inside the Folder node named by the resolved     *)
(* path of that folder; also when two folder entries resolve to the same   *)
(* path.                                                                   *)
(***************************************************************************)
FolderEntries == { i \in 1..Len(data.projects) : data.projects[i].isSolutionFolder }

(* where the File nodes with that Path stand: << f, k >> for the k-th child of the
   Folder that is the f-th child of Solution *)
FilePlaces(tree, item) ==
    UNION { { << f, k >> : k \in { j \in Positions(tree[f].kids, "File") :
                                      AttrValue(tree[f].kids[j], "Path") = item } } :
             f \in Positions(tree, "Folder") }

C21_EveryItemOnce ==
    Finished =>
        \A i \in FolderEntries :
            \A n \in 1..Len(data.projects[i].solutionItems) :
                LET places == FilePlaces(Output, data.projects[i].solutionItems[n])
                IN  /\ Cardinality(places) = 1
                    /\ \A place \in places :
                          AttrValue(Output[place[1]], "Name")
                            = folderPathCache[data.projects[i].guid]

(***************************************************************************)
(* C22.  The output tree is a function of the input alone: whatever the    *)
(* order in which the loop of line 528 meets the folder entries, and so    *)
(* whatever the order in which identifiers are first resolved through the  *)
(* shared cache, WriteSlnx builds the same tree; cyclic nesting and        *)
(* folders with colliding paths included.                                  *)
(***************************************************************************)
(* the orders in which the elements of a set can be met *)
RECURSIVE Orders(_)
Orders(S) ==
    IF S = {} THEN { <<>> }
    ELSE UNION { { << x >> \o o : o \in Orders(S \ {x}) } : x \in S }

FolderGuids == { data.projects[i].guid : i \in FolderEntries }

C22_OrderFree ==
    pc = "write" =>
        \A o1, o2 \in Orders(FolderGuids) :
            WriteSlnx(data, o1, Separators) = WriteSlnx(data, o2, Separators)

(* the tree the run has written is the one the function gives for some order *)
WrittenAsComputed ==
    Finished => \E o \in Orders(FolderGuids) : Output = WriteSlnx(data, o, Separators)

(***************************************************************************)
(* C23.  Whenever inProject is true the project list is not empty and its  *)
(* last element is the entry created by the header that opened the current *)
(* block: a block is opened only by the step that appends an entry, and    *)
(* while it is open no entry is appended or removed and the last entry     *)
(* keeps its typeGuid, name, path and guid.  inProjectDependencies or      *)
(* inSolutionItems being true implies inProject is true.                   *)
(***************************************************************************)
BlockOpensWithEntry ==
    (~inProject /\ inProject') => Len(data'.projects) = Len(data.projects) + 1

EntryOpensBlock ==
    Len(data'.projects) # Len(data.projects) =>
        /\ ~inProject /\ inProject'
        /\ SubSeq(data'.projects, 1, Len(data.projects)) = data.projects

OpenBlockKeepsEntry ==
    inProject =>
        /\ Len(data'.projects) = Len(data.projects)
        /\ Last(data'.projects).typeGuid = Last(data.projects).typeGuid
        /\ Last(data'.projects).name = Last(data.projects).name
        /\ Last(data'.projects).path = Last(data.projects).path
        /\ Last(data'.projects).guid = Last(data.projects).guid

C23_CurrentEntry ==
    /\ [](inProject => data.projects # <<>>)
    /\ []((inProjectDependencies \/ inSolutionItems) => inProject)
    /\ [][BlockOpensWithEntry /\ EntryOpensBlock /\ OpenBlockKeepsEntry]_vars

C23_Witness ==
    /\ lineNo = 4 /\ inProject /\ inProjectDependencies
    /\ Len(data.projects) = 1
    /\ data.projects[1].guid = F1
    /\ data.projects[1].dependencies = << P2 >>

====
